---- MODULE Spec2Model ----
(***************************************************************************)
(* Grid trading engine (girdbot): the per-level order state machine of     *)
(* GridStrategy, the OrderManager, the HedgeManager, the persisted state   *)
(* and the GridEngine scheduler with its shutdown sequence.                *)
(*                                                                         *)
(* Order ids are positive integers handed out by the venues; 0 stands for  *)
(* Python's None.  Prices are integers.                                    *)
(***************************************************************************)
EXTENDS Integers, Sequences, FiniteSets, TLC

(* ------------------------------ bounds -------------------------------- *)
\* orders the primary venue accepts in a run of Spec, unhedged / hedged
MaxOrders == 3
MaxHedgedOrders == 2
\* orders the hedge venues accept in one run
MaxHedgeOrders == 2
\* SpecLife: orders the primary venue accepts, process restarts
MaxLifeOrders == 2
MaxRestarts == 1
\* SpecEngine: orders the primary venue accepts
MaxEngineOrders == 2
\* SpecFaults: orders the primary venue accepts
MaxFaultOrders == 2
\* SpecOrders: order ids and level ids given to the OrderManager, seconds of the clock
MaxTrackedIds == 2
MaxTrackedLevels == 1
MaxClock == 1
\* SpecHedgeCalls: original order ids passed to create_hedge_order, orders the
\* hedge venues accept
MaxOriginalIds == 1
\* SpecStore: files created under the temporary name
MaxFiles == 3
\* SpecSave: seconds the clock runs
MaxSaveClock == 6
MaxSaveRestarts == 1
\* SpecClose: positions a hedge venue reports
MaxPositions == 2
\* SpecHedgeUpdate: orders the hedge venues accept
MaxPolledHedgeOrders == 3
MaxCalledHedgeOrders == 3
\* SpecCycle, SpecRetry: orders the primary venue accepts
MaxRetryOrders == 3
\* SpecGrid: levels of a configured grid, orders the primary venue accepts
MaxGridLevels == 4
MaxGridOrders == 1
\* SpecStartup: orders the primary venue accepts
MaxStartupOrders == 1
\* SpecRecover: orders the primary venue accepts
MaxRecoverOrders == 1
\* SpecHedge: orders the primary venue / the hedge venues accept
MaxCancelPrimaryOrders == 1
MaxCancelHedgeOrders == 2

(* --------------------------- configurations --------------------------- *)
\* config grid_number of the strategies of Spec (unhedged / hedged) and SpecLife
GridNumber == 3
HedgedGridNumber == 1
LifeGridNumber == 1
\* config grid_number of each of the two strategies of SpecEngine
EngineGridNumber == 1
RetryGridNumber == 2

(* --------------------------- program constants ------------------------ *)
SaveInterval == 5
UpdateInterval == 2
\* prices are counted in units of 0.0001, the smallest price of the program
PriceUnit == 10000
MinStartPrice == 1

NoOrder == 0
StrategyIds == {"s1", "s2"}
Sides == {"buy", "sell"}
PRIMARY == "binance_future_main"
\* prices the ticker reports during a run, and at initialization
Prices == {120 * PriceUnit, 150 * PriceUnit}
InitPrices == {150 * PriceUnit}
\* a ticker price above the configured range [low_price, high_price]
OutsidePrice == 250 * PriceUnit
\* configured ranges of SpecGrid, all holding the prices the ticker reports
LowPrices == {100 * PriceUnit, 110 * PriceUnit}
HighPrices == {200 * PriceUnit, 210 * PriceUnit}

VARIABLES
    exchange_configs,  \* ExchangeManager.exchange_configs: configured exchange id -> [name, is_hedge]
    exchanges,         \* ExchangeManager: exchange id -> [name, is_hedge]
    exchange_orders,   \* venue side: exchange id -> (order id -> [side, status])
    next_order_id,     \* next id a venue hands out
    strategies,        \* GridEngine.strategies (ids of the constructed strategies)
    config,            \* strategy id -> [low_price, high_price, grid_number, enable_hedge]
    start_price,       \* strategy id -> GridStrategy.start_price
    end_price,         \* strategy id -> GridStrategy.end_price
    levels,            \* strategy id -> grid_levels_data (sequence of levels)
    orders,            \* strategy id -> OrderManager.orders
    completed_trades,  \* strategy id -> GridStrategy.completed_trades
    pc,                \* strategy id -> position of its run_strategy task
    current_price,     \* strategy id -> price fetched by the running cycle
    batch,             \* strategy id -> orders_info still to be handled
    handling,          \* strategy id -> the order whose fill it is handling
    idx,               \* strategy id -> level index of update_grid_orders
    placed,            \* strategy id -> placements requested by its last step
    trades_cache,      \* TradeRecorder.trades_cache (strategy id -> list)
    cache_known,       \* strategy ids present in TradeRecorder.trades_cache
    trades_file,       \* persisted trade history per strategy
    recorded,          \* order id -> record_trade calls made for it so far
    stored,            \* persisted StrategyState per strategy
    since_save,        \* seconds since _last_save_time[strategy], capped
    hedge_strategies,  \* HedgeManager.hedge_strategies: id -> hedge exchanges
    hedge_orders,      \* HedgeManager.hedge_orders: key -> group
    reverse_lookup,    \* HedgeManager.reverse_lookup
    uuid_count,        \* synthesized original order ids so far
    hedge_call,        \* the last create_hedge_order call and what it requested
    hedge_polls,       \* the fetch_order calls of the last HedgeManager.update,
                       \* until the next cycle begins: hedge order id -> [exchange, result]
    close_call,        \* the last close_all_hedge_positions call: per hedge exchange
                       \* what the venue holds, the positions fetched and the
                       \* create_market_order calls
    is_running,        \* GridEngine.is_running
    phase,             \* position of GridEngine.shutdown
    shutdown_pc,       \* strategy id -> position of its GridStrategy.shutdown task
    cancel_queue,      \* strategy id -> ids cancel_all_orders still has to cancel
    cancel_requested,  \* order ids a cancellation was requested for
    restarts,          \* process restarts so far
    tasks,             \* strategy id -> run_strategy tasks of GridEngine.tasks not yet done
    now,               \* time.time(), in seconds
    manager_start_time,  \* GridStateManager.start_time: when the process was set up
    file_storage,      \* FileStorage and the files of one key: the file at the
                       \* path, the temporary file, the lock, the calls in flight
    fetch_errors,      \* per strategy: the entries of orders_info with status "error"
                       \* (the fetch failed), while the loop over orders_info runs
    returned,          \* what the last OrderManager call returned
    held,              \* the list a caller holds from its last OrderManager query
    limits             \* the run's environment: orders the venues accept, cycle
                       \* durations, whether the ticker can fail

vars == <<exchange_configs, exchanges, exchange_orders, next_order_id, strategies, config,
          start_price, end_price, levels, orders, completed_trades, pc,
          current_price, batch, fetch_errors, handling, idx, placed, trades_cache, cache_known,
          trades_file, recorded, stored, since_save, hedge_strategies, hedge_orders,
          reverse_lookup, uuid_count, hedge_call, hedge_polls, close_call,
          is_running, phase,
          shutdown_pc, cancel_queue, cancel_requested, restarts, tasks, now, manager_start_time,
          file_storage, returned,
          held, limits>>

callerVars == <<now, manager_start_time, file_storage, returned, held>>
venueVars == <<exchange_orders, next_order_id>>
hedgeVars == <<hedge_strategies, hedge_orders, reverse_lookup, uuid_count, hedge_call,
               hedge_polls, close_call>>
tradeVars == <<trades_cache, cache_known, trades_file, recorded>>
engineVars == <<is_running, phase, shutdown_pc, cancel_queue, cancel_requested, restarts, tasks>>
configVars == <<exchange_configs, exchanges, strategies, config, limits>>

(* ------------------------------ helpers ------------------------------- *)
Min(a, b) == IF a < b THEN a ELSE b

RECURSIVE SetToSeq(_)
SetToSeq(S) == IF S = {} THEN <<>>
               ELSE LET x == CHOOSE y \in S : \A z \in S : y <= z
                    IN <<x>> \o SetToSeq(S \ {x})

Range(f) == {f[x] : x \in DOMAIN f}

(* ----------------------------- OrderManager --------------------------- *)
\* an add_order that replaces the record of an id already present
add_order_overwrites(om, order_id, order_data) ==
    [id \in DOMAIN om \cup {order_id} |-> IF id = order_id THEN order_data ELSE om[id]]

\* add_order: an id already present is left alone
add_order(om, order_id, order_data) ==
    IF order_id \in DOMAIN om THEN om ELSE (order_id :> order_data) @@ om

\* update_order: an absent id is left alone
update_order(om, order_id, order_data) ==
    IF order_id \notin DOMAIN om THEN om ELSE [om EXCEPT ![order_id] = order_data]

\* nothing returned yet
NoReturn == [op |-> "", arg |-> 0, ok |-> FALSE, count |-> 0]

\* the statuses after which an order is no longer live / the live ones
ActiveStatuses == {"open", "partially_filled"}
OrderStatuses == ActiveStatuses \cup {"filled", "canceled"}

\* get_order: the tracker's own record of the id (a reference), None if absent
get_order(om, order_id) ==
    [id \in {order_id} \cap DOMAIN om |-> [data |-> om[id], shared |-> TRUE]]

\* a get_orders_by_status that hands out the tracker's own records
get_orders_by_status_refs(om, status) ==
    [id \in {x \in DOMAIN om : om[x].status = status} |->
        [data |-> om[id], shared |-> TRUE]]

\* get_orders_by_status / _by_side / _by_level_id / _by_time_range: a list of
\* new dicts {"id": id, **order_data}, one per matching order
get_orders_by_status(om, status) ==
    [id \in {x \in DOMAIN om : om[x].status = status} |->
        [data |-> om[id], shared |-> FALSE]]

get_orders_by_side(om, side) ==
    [id \in {x \in DOMAIN om : om[x].side = side} |->
        [data |-> om[id], shared |-> FALSE]]

get_orders_by_level_id(om, level_id) ==
    [id \in {x \in DOMAIN om : om[x].level_id = level_id} |->
        [data |-> om[id], shared |-> FALSE]]

get_orders_by_time_range(om, start_time, end_time) ==
    [id \in {x \in DOMAIN om : start_time <= om[x].timestamp /\ om[x].timestamp <= end_time} |->
        [data |-> om[id], shared |-> FALSE]]

\* a clean_old_orders that looks at the age alone
clean_old_orders_any_status(om, current_time, max_age) ==
    LET old_orders == {id \in DOMAIN om : current_time - om[id].timestamp > max_age}
    IN [orders |-> [id \in DOMAIN om \ old_orders |-> om[id]],
        count |-> Cardinality(old_orders)]

\* clean_old_orders(max_age): delete the orders older than max_age whose status
\* is neither open nor partially_filled; the number of them is returned
clean_old_orders(om, current_time, max_age) ==
    LET old_orders == {id \in DOMAIN om :
                          /\ current_time - om[id].timestamp > max_age
                          /\ om[id].status \notin ActiveStatuses}
    IN [orders |-> [id \in DOMAIN om \ old_orders |-> om[id]],
        count |-> Cardinality(old_orders)]

\* the value add_order returns
add_order_returns(om, order_id) == order_id \notin DOMAIN om

(* ----------------------------- FileStorage ---------------------------- *)
\* the JSON texts written, as lists of blocks: a short record and a long one
RecordData == {<<1>>, <<2, 2>>}

\* no file of the key yet, no call in flight.  `content` lists the files ever
\* created (a file stays while a handle is open on it); path and temp are
\* the files the two names lead to, 0 when the name does not exist.
NoFiles ==
    [path |-> 0, temp |-> 0, content |-> <<>>, lock |-> "",
     save |-> [pc |-> "idle", data |-> <<>>, handle |-> 0],
     load |-> [pc |-> "idle", handle |-> 0],
     loaded |-> <<>>, saved |-> "", changed |-> FALSE]

\* open(temp_file, 'w'): the file the name leads to is emptied, or a new file
\* is created under the name
open_temp(fs) ==
    IF fs.temp = 0
    THEN [fs EXCEPT !.content = Append(@, <<>>), !.temp = Len(fs.content) + 1]
    ELSE [fs EXCEPT !.content[fs.temp] = <<>>]

\* a write of data through a handle opened with 'w' that nobody else wrote
\* through: from offset 0, over what the file holds by now
write_file(content, data) ==
    data \o SubSeq(content, Len(data) + 1, Len(content))

\* save_json_sync(filename, data): temporary file, then shutil.move; with
\* `fails` the dump raises part-way and the temporary file is removed
save_json_sync(fs, data, fails) ==
    LET opened == open_temp(fs)
        h == opened.temp
    IN IF fails
       THEN [opened EXCEPT !.content[h] = SubSeq(data, 1, Len(data) - 1),
                           !.temp = 0, !.saved = "failed", !.changed = FALSE]
       ELSE [opened EXCEPT !.content[h] = data, !.path = h, !.temp = 0,
                           !.saved = "ok", !.changed = TRUE]

\* load_json_sync(filename): what open(file_path) reads
load_json_sync(fs) ==
    [fs EXCEPT !.loaded = IF fs.path = 0 THEN <<>> ELSE fs.content[fs.path]]

\* save_json(filename, data), from one await to the next
save_json(fs, data, fails) ==
    CASE fs.save.pc = "idle" ->
           \* async with self._file_locks[file_path]
           [fs EXCEPT !.lock = "save", !.save = [pc |-> "open", data |-> data, handle |-> 0],
                      !.changed = FALSE]
      [] fs.save.pc = "open" ->
           \* aiofiles.open(temp_file, 'w')
           LET opened == open_temp(fs)
           IN [opened EXCEPT !.save.pc = "write", !.save.handle = opened.temp,
                             !.changed = FALSE]
      [] fs.save.pc = "write" ->
           \* f.write and the close that flushes it; on an exception the
           \* temporary file is removed when the name exists
           IF fails
           THEN [fs EXCEPT !.content[fs.save.handle] =
                              write_file(@, SubSeq(fs.save.data, 1, Len(fs.save.data) - 1)),
                           !.temp = 0, !.lock = "", !.saved = "failed",
                           !.save = [pc |-> "idle", data |-> <<>>, handle |-> 0],
                           !.changed = fs.path = fs.save.handle]
           ELSE [fs EXCEPT !.content[fs.save.handle] = write_file(@, fs.save.data),
                           !.save.pc = "move",
                           !.changed = fs.path = fs.save.handle]
      [] fs.save.pc = "move" ->
           \* shutil.move(temp_file, file_path): raises when the name is gone
           IF fs.temp = 0
           THEN [fs EXCEPT !.lock = "", !.saved = "failed",
                           !.save = [pc |-> "idle", data |-> <<>>, handle |-> 0],
                           !.changed = FALSE]
           ELSE [fs EXCEPT !.path = fs.temp, !.temp = 0, !.lock = "", !.saved = "ok",
                           !.save = [pc |-> "idle", data |-> <<>>, handle |-> 0],
                           !.changed = TRUE]

\* load_json(filename), from one await to the next
load_json(fs) ==
    CASE fs.load.pc = "idle" ->
           \* os.path.exists, then async with self._file_locks[file_path]
           IF fs.path = 0 THEN [fs EXCEPT !.loaded = <<>>, !.changed = FALSE]
           ELSE [fs EXCEPT !.lock = "load", !.load.pc = "open", !.changed = FALSE]
      [] fs.load.pc = "open" ->
           \* aiofiles.open(file_path, 'r')
           [fs EXCEPT !.load = [pc |-> "read", handle |-> fs.path], !.changed = FALSE]
      [] fs.load.pc = "read" ->
           \* f.read()
           [fs EXCEPT !.loaded = fs.content[fs.load.handle], !.lock = "",
                      !.load = [pc |-> "idle", handle |-> 0], !.changed = FALSE]

(* ----------------------------- ExchangeManager ------------------------ *)
\* exchange ids in the insertion order of ExchangeManager.exchanges
ExchangeOrder == <<PRIMARY, "binance_future_h1", "binance_h2">>

\* get_exchange_by_name: the first exchange carrying that name, "" for None
get_exchange_by_name(name) ==
    LET hits == {i \in 1..Len(ExchangeOrder) :
                    /\ ExchangeOrder[i] \in DOMAIN exchanges
                    /\ exchanges[ExchangeOrder[i]].name = name}
    IN IF hits = {} THEN ""
       ELSE ExchangeOrder[CHOOSE i \in hits : \A j \in hits : i <= j]

\* get_primary_exchange: the exchange configured as primary when it was
\* initialized, otherwise the first initialized exchange; "" for None
get_primary_exchange ==
    IF PRIMARY \in DOMAIN exchanges THEN PRIMARY
    ELSE LET up == {i \in 1..Len(ExchangeOrder) : ExchangeOrder[i] \in DOMAIN exchanges}
         IN IF up = {} THEN ""
            ELSE ExchangeOrder[CHOOSE i \in up : \A j \in up : i <= j]

\* get_hedge_exchanges: the configured exchanges marked is_hedge, in order
get_hedge_exchanges ==
    SelectSeq(ExchangeOrder,
              LAMBDA e : e \in DOMAIN exchanges /\ exchanges[e].is_hedge)

\* orders accepted so far by the hedge venues / by the primary venue
HedgePlaced(xo) ==
    Cardinality(UNION {DOMAIN xo[e] : e \in {x \in DOMAIN exchanges : exchanges[x].is_hedge}})
PrimaryPlaced(xo) == Cardinality(DOMAIN xo[get_primary_exchange])

(* ----------------------------- HedgeManager --------------------------- *)
\* a hedge side that repeats the side it is given
HedgeSideSame(side) == side

\* hedge_manager.py:85  hedge_side = "sell" if side == "buy" else "buy"
HedgeSide(side) == IF side = "buy" THEN "sell" ELSE "buy"

\* no close_all_hedge_positions call yet
NoClose == [strategy |-> "", exchanges |-> <<>>]

\* no create_hedge_order call yet
NoCall == [strategy |-> "", side |-> "", key |-> NoOrder, requested |-> {}, ids |-> {}]

\* the effect of a create_hedge_order call that reaches no venue
NoHedge(xo, nid) ==
    [exchange_orders |-> xo, next_order_id |-> nid, hedge_orders |-> hedge_orders,
     reverse_lookup |-> reverse_lookup, uuid_count |-> uuid_count,
     hedge_call |-> hedge_call]

\* a create_hedge_order whose loop over the venues ends at the first venue
\* that refuses
create_hedge_order_stops(s, side, level_id, original_order_id, xo, nid, given) ==
    IF s \notin DOMAIN hedge_strategies
    THEN [NoHedge(xo, nid) EXCEPT
            !.hedge_call = [strategy |-> s, side |-> side, key |-> NoOrder,
                            requested |-> {}, ids |-> {}]]
    ELSE
    LET exs == hedge_strategies[s]
        accepted == {i \in given : \A j \in 1..(i - 1) : j \in given}
        tried == {i \in 1..Len(exs) : \A j \in 1..(i - 1) : j \in given}
        hedge_side == HedgeSide(side)
        synth == original_order_id = NoOrder
        key == IF synth THEN 0 - (uuid_count + 1) ELSE original_order_id
        idOf(i) == nid + Cardinality({j \in accepted : j < i})
        ids == {idOf(i) : i \in accepted}
        members == [h \in ids |->
                      LET i == CHOOSE j \in accepted : idOf(j) = h
                      IN [exchange_name |-> exchanges[exs[i]].name,
                          exchange_id |-> exs[i], status |-> "open"]]
        info == [strategy_id |-> s, level_id |-> level_id, side |-> hedge_side,
                 status |-> "open", orders |-> members]
        xo2 == [e \in DOMAIN xo |->
                  LET mine == {i \in accepted : exs[i] = e}
                  IN [h \in DOMAIN xo[e] \cup {idOf(i) : i \in mine} |->
                        IF h \in DOMAIN xo[e] THEN xo[e][h]
                        ELSE [side |-> hedge_side, status |-> "open"]]]
    IN [exchange_orders |-> xo2,
        next_order_id |-> nid + Cardinality(accepted),
        hedge_orders |-> IF ids = {} THEN hedge_orders
                         ELSE [k \in DOMAIN hedge_orders \cup {key} |->
                                 IF k = key THEN info ELSE hedge_orders[k]],
        reverse_lookup |-> [h \in DOMAIN reverse_lookup \cup ids |->
                              IF h \in ids THEN key ELSE reverse_lookup[h]],
        uuid_count |-> IF synth /\ ids # {} THEN uuid_count + 1 ELSE uuid_count,
        hedge_call |-> [strategy |-> s, side |-> side, key |-> key,
                        requested |-> {<<exs[i], hedge_side>> : i \in tried},
                        ids |-> ids]]

\* create_hedge_order(strategy_id, side, .., level_id, original_order_id):
\* `accepted` are the positions, in the strategy's hedge exchange list, of the
\* venues that accept the order; xo and nid are the venue state it starts from.
create_hedge_order(s, side, level_id, original_order_id, xo, nid, accepted) ==
    IF s \notin DOMAIN hedge_strategies
    THEN [NoHedge(xo, nid) EXCEPT
            !.hedge_call = [strategy |-> s, side |-> side, key |-> NoOrder,
                            requested |-> {}, ids |-> {}]]
    ELSE
    LET exs == hedge_strategies[s]
        hedge_side == HedgeSide(side)
        synth == original_order_id = NoOrder
        key == IF synth THEN 0 - (uuid_count + 1) ELSE original_order_id
        idOf(i) == nid + Cardinality({j \in accepted : j < i})
        ids == {idOf(i) : i \in accepted}
        members == [h \in ids |->
                      LET i == CHOOSE j \in accepted : idOf(j) = h
                      IN [exchange_name |-> exchanges[exs[i]].name,
                          exchange_id |-> exs[i], status |-> "open"]]
        info == [strategy_id |-> s, level_id |-> level_id, side |-> hedge_side,
                 status |-> "open", orders |-> members]
        xo2 == [e \in DOMAIN xo |->
                  LET mine == {i \in accepted : exs[i] = e}
                  IN [h \in DOMAIN xo[e] \cup {idOf(i) : i \in mine} |->
                        IF h \in DOMAIN xo[e] THEN xo[e][h]
                        ELSE [side |-> hedge_side, status |-> "open"]]]
    IN [exchange_orders |-> xo2,
        next_order_id |-> nid + Cardinality(accepted),
        hedge_orders |-> IF ids = {} THEN hedge_orders
                         ELSE [k \in DOMAIN hedge_orders \cup {key} |->
                                 IF k = key THEN info ELSE hedge_orders[k]],
        reverse_lookup |-> [h \in DOMAIN reverse_lookup \cup ids |->
                              IF h \in ids THEN key ELSE reverse_lookup[h]],
        uuid_count |-> IF synth /\ ids # {} THEN uuid_count + 1 ELSE uuid_count,
        hedge_call |-> [strategy |-> s, side |-> side, key |-> key,
                        requested |-> {<<exs[i], hedge_side>> : i \in 1..Len(exs)},
                        ids |-> ids]]

\* the venues a hedge placement of strategy s may be accepted by
HedgeChoices(s, xo) ==
    IF s \notin DOMAIN hedge_strategies THEN {{}}
    ELSE {a \in SUBSET (1..Len(hedge_strategies[s])) :
             HedgePlaced(xo) + Cardinality(a) <= limits.hedge_orders}

(* ------------------------ GridStrategy: placement --------------------- *)
NoPlacement == <<>>

\* a buy placement that keeps the level and the order map as they were when no
\* hedge venue accepted the hedge order
place_buy_order_needs_hedge(s, l, lv, om, ok, accepted) ==
    IF ~ok
    THEN [levels |-> lv, orders |-> om, hedge |-> NoHedge(exchange_orders, next_order_id),
          placed |-> <<[side |-> "buy", level |-> l, order_id |-> NoOrder, hedge |-> {}]>>]
    ELSE
    LET order_id == next_order_id
        xo == [exchange_orders EXCEPT ![get_primary_exchange] =
                  (order_id :> [side |-> "buy", status |-> "open"]) @@ @]
        h == IF config[s].enable_hedge
             THEN create_hedge_order(s, "sell", l, NoOrder, xo, order_id + 1, accepted)
             ELSE NoHedge(xo, order_id + 1)
        hedged == ~config[s].enable_hedge \/ h.hedge_call.ids # {}
    IN [levels |-> IF hedged
                   THEN [lv EXCEPT ![l].buy_order_id = order_id, ![l].status = "BUYING"]
                   ELSE lv,
        orders |-> IF hedged
                   THEN add_order(om, order_id,
                                  [level_id |-> l, side |-> "buy", status |-> "open"])
                   ELSE om,
        hedge |-> h,
        placed |-> <<[side |-> "buy", level |-> l, order_id |-> order_id,
                      hedge |-> IF config[s].enable_hedge
                                THEN {r[2] : r \in h.hedge_call.requested} ELSE {}]>>]

\* a buy placement that does not hand the new order to the order manager
place_buy_order_untracked(s, l, lv, om, ok, accepted) ==
    IF ~ok
    THEN [levels |-> lv, orders |-> om, hedge |-> NoHedge(exchange_orders, next_order_id),
          placed |-> <<[side |-> "buy", level |-> l, order_id |-> NoOrder, hedge |-> {}]>>]
    ELSE
    LET order_id == next_order_id
        xo == [exchange_orders EXCEPT ![get_primary_exchange] =
                  (order_id :> [side |-> "buy", status |-> "open"]) @@ @]
        h == IF config[s].enable_hedge
             THEN create_hedge_order(s, "sell", l, NoOrder, xo, order_id + 1, accepted)
             ELSE NoHedge(xo, order_id + 1)
    IN [levels |-> [lv EXCEPT ![l].buy_order_id = order_id, ![l].status = "BUYING"],
        orders |-> om,
        hedge |-> h,
        placed |-> <<[side |-> "buy", level |-> l, order_id |-> order_id,
                      hedge |-> IF config[s].enable_hedge
                                THEN {r[2] : r \in h.hedge_call.requested} ELSE {}]>>]

\* place_buy_order(level): ok = the primary venue accepts the limit order
place_buy_order(s, l, lv, om, ok, accepted) ==
    IF ~ok
    THEN [levels |-> lv, orders |-> om, hedge |-> NoHedge(exchange_orders, next_order_id),
          placed |-> <<[side |-> "buy", level |-> l, order_id |-> NoOrder, hedge |-> {}]>>]
    ELSE
    LET order_id == next_order_id
        xo == [exchange_orders EXCEPT ![get_primary_exchange] =
                  (order_id :> [side |-> "buy", status |-> "open"]) @@ @]
        h == IF config[s].enable_hedge
             THEN create_hedge_order(s, "sell", l, NoOrder, xo, order_id + 1, accepted)
             ELSE NoHedge(xo, order_id + 1)
    IN [levels |-> [lv EXCEPT ![l].buy_order_id = order_id, ![l].status = "BUYING"],
        orders |-> add_order(om, order_id,
                             [level_id |-> l, side |-> "buy", status |-> "open"]),
        hedge |-> h,
        placed |-> <<[side |-> "buy", level |-> l, order_id |-> order_id,
                      hedge |-> IF config[s].enable_hedge
                                THEN {r[2] : r \in h.hedge_call.requested} ELSE {}]>>]

\* a sell placement that sets the level's reference and leaves its status
place_sell_order_keeps_status(s, l, lv, om, ok, accepted) ==
    IF ~ok
    THEN [levels |-> lv, orders |-> om, hedge |-> NoHedge(exchange_orders, next_order_id),
          placed |-> <<[side |-> "sell", level |-> l, order_id |-> NoOrder, hedge |-> {}]>>]
    ELSE
    LET order_id == next_order_id
        xo == [exchange_orders EXCEPT ![get_primary_exchange] =
                  (order_id :> [side |-> "sell", status |-> "open"]) @@ @]
        h == IF config[s].enable_hedge
             THEN create_hedge_order(s, "buy", l, NoOrder, xo, order_id + 1, accepted)
             ELSE NoHedge(xo, order_id + 1)
    IN [levels |-> [lv EXCEPT ![l].sell_order_id = order_id],
        orders |-> add_order(om, order_id,
                             [level_id |-> l, side |-> "sell", status |-> "open"]),
        hedge |-> h,
        placed |-> <<[side |-> "sell", level |-> l, order_id |-> order_id,
                      hedge |-> IF config[s].enable_hedge
                                THEN {r[2] : r \in h.hedge_call.requested} ELSE {}]>>]

\* place_sell_order(level)
place_sell_order(s, l, lv, om, ok, accepted) ==
    IF ~ok
    THEN [levels |-> lv, orders |-> om, hedge |-> NoHedge(exchange_orders, next_order_id),
          placed |-> <<[side |-> "sell", level |-> l, order_id |-> NoOrder, hedge |-> {}]>>]
    ELSE
    LET order_id == next_order_id
        xo == [exchange_orders EXCEPT ![get_primary_exchange] =
                  (order_id :> [side |-> "sell", status |-> "open"]) @@ @]
        h == IF config[s].enable_hedge
             THEN create_hedge_order(s, "buy", l, NoOrder, xo, order_id + 1, accepted)
             ELSE NoHedge(xo, order_id + 1)
    IN [levels |-> [lv EXCEPT ![l].sell_order_id = order_id, ![l].status = "SELLING"],
        orders |-> add_order(om, order_id,
                             [level_id |-> l, side |-> "sell", status |-> "open"]),
        hedge |-> h,
        placed |-> <<[side |-> "sell", level |-> l, order_id |-> order_id,
                      hedge |-> IF config[s].enable_hedge
                                THEN {r[2] : r \in h.hedge_call.requested} ELSE {}]>>]

\* no placement: the strategy state as given, the venues untouched
keep(lv, om) ==
    [levels |-> lv, orders |-> om, hedge |-> NoHedge(exchange_orders, next_order_id),
     placed |-> NoPlacement]

\* the outcomes the venues can give to one placement of strategy s
Outcomes(s) ==
    {<<FALSE, {}>>} \cup
    {<<TRUE, a>> : a \in
        IF PrimaryPlaced(exchange_orders) >= limits.orders THEN {}
        ELSE IF config[s].enable_hedge THEN HedgeChoices(s, exchange_orders) ELSE {{}}}

\* write the result of a step of strategy s to the state
Commit(s, eff) ==
    /\ levels' = [levels EXCEPT ![s] = eff.levels]
    /\ orders' = [orders EXCEPT ![s] = eff.orders]
    /\ placed' = [placed EXCEPT ![s] = eff.placed]
    /\ exchange_orders' = eff.hedge.exchange_orders
    /\ next_order_id' = eff.hedge.next_order_id
    /\ hedge_orders' = eff.hedge.hedge_orders
    /\ reverse_lookup' = eff.hedge.reverse_lookup
    /\ uuid_count' = eff.hedge.uuid_count
    /\ hedge_call' = eff.hedge.hedge_call

(* ------------------------ GridStrategy: the grid ---------------------- *)
\* _adjust_to_precision: round down to a multiple of the precision
_adjust_to_precision(value, precision) ==
    IF precision <= 0 THEN value ELSE (value \div precision) * precision

\* Decimal division a / b: the quotient rounded half-even to the last digit kept
DecimalQuotient(a, b) ==
    LET q == a \div b
        r == a % b
    IN IF 2 * r > b \/ (2 * r = b /\ q % 2 = 1) THEN q + 1 ELSE q

\* calculate_grid_levels: grid_number equally spaced READY levels
calculate_grid_levels(sp, ep, n, precision) ==
    LET price_step == IF n > 1 THEN DecimalQuotient(ep - sp, n - 1) ELSE 0
    IN [i \in 1..n |->
          [price |-> _adjust_to_precision(sp + price_step * (i - 1), precision),
           status |-> "READY", buy_order_id |-> NoOrder, sell_order_id |-> NoOrder]]

\* the range after the re-centring of initialize() on the price cp
Recentred(sp, ep, cp) ==
    IF sp <= cp /\ cp <= ep THEN <<sp, ep>>
    ELSE LET price_range == ep - sp
             lo == cp - (price_range \div 2)
         IN IF lo < 0 THEN <<MinStartPrice, MinStartPrice + price_range>>
            ELSE <<lo, cp + (price_range \div 2)>>

\* get_current_price: the ticker's last price, or the fallback when the fetch
\* fails (in a run where the ticker can fail)
FetchedPrices(s) ==
    Prices \cup
    (IF limits.ticker_fails
     THEN {IF Len(levels[s]) > 0 THEN (start_price[s] + end_price[s]) \div 2 ELSE 0}
     ELSE {})

\* ids referenced by the levels (check_order_status, cancel_all_orders)
ActiveOrderIds(lv) ==
    ({lv[i].buy_order_id : i \in 1..Len(lv)} \cup
     {lv[i].sell_order_id : i \in 1..Len(lv)}) \ {NoOrder}

(* ------------------------ TradeRecorder / storage --------------------- *)
\* record_trade: append to the cache (created empty when unknown), write the file
record_trade(s, order_id, side) ==
    LET cache == IF s \in cache_known THEN trades_cache[s] ELSE <<>>
        new == Append(cache, [order_id |-> order_id, side |-> side])
    IN /\ trades_cache' = [trades_cache EXCEPT ![s] = new]
       /\ cache_known' = cache_known \cup {s}
       /\ trades_file' = [trades_file EXCEPT ![s] = new]
       /\ recorded' = [id \in DOMAIN recorded \cup {order_id} |->
                          IF id = order_id
                          THEN (IF id \in DOMAIN recorded THEN recorded[id] ELSE 0) + 1
                          ELSE recorded[id]]

\* get_trades_by_strategy -> _ensure_cache_initialized: load the file once
ensure_cache_initialized(s) ==
    /\ trades_cache' = IF s \in cache_known THEN trades_cache
                       ELSE [trades_cache EXCEPT ![s] = trades_file[s]]
    /\ cache_known' = cache_known \cup {s}
    /\ UNCHANGED <<trades_file, recorded>>

\* the state dict GridStrategy.save_state builds
Snapshot(s) ==
    [exists |-> TRUE, start_price |-> start_price[s], end_price |-> end_price[s],
     levels |-> levels[s], orders |-> orders[s],
     completed_trades |-> completed_trades[s], damage |-> "", last_saved |-> 0]

NoState ==
    [exists |-> FALSE, start_price |-> 0, end_price |-> 0, levels |-> <<>>,
     orders |-> <<>>, completed_trades |-> 0, damage |-> "", last_saved |-> 0]

\* a save_grid_state that notes the time of every attempted write, also of
\* one that failed
save_grid_state_stamps_attempt(st, since, s, state, current_time, ok) ==
    IF since[s] < SaveInterval
    THEN [stored |-> st, since_save |-> since, result |-> TRUE, writes |-> 0]
    ELSE [stored |-> IF ok
                     THEN [st EXCEPT ![s] = [state EXCEPT !.last_saved = current_time]]
                     ELSE st,
          since_save |-> [since EXCEPT ![s] = 0],
          result |-> ok, writes |-> 1]

\* GridStateManager.save_grid_state at time current_time: skipped within
\* _save_interval of the last write; otherwise the state is stamped with
\* _last_saved and written by save_json_sync, which returns ok; the time of
\* the last save is noted only when ok.  `writes` counts the calls of
\* save_json_sync.
save_grid_state(st, since, s, state, current_time, ok) ==
    IF since[s] < SaveInterval
    THEN [stored |-> st, since_save |-> since, result |-> TRUE, writes |-> 0]
    ELSE IF ok
    THEN [stored |-> [st EXCEPT ![s] = [state EXCEPT !.last_saved = current_time]],
          since_save |-> [since EXCEPT ![s] = 0],
          result |-> TRUE, writes |-> 1]
    ELSE [stored |-> st, since_save |-> since, result |-> FALSE, writes |-> 1]

(* ------------------------ GridStrategy: the cycle --------------------- *)
\* GridEngine.run_strategy -> GridStrategy.initialize
Initialize(s) ==
    /\ pc[s] = "start"
    /\ \E cp \in FetchedPrices(s) \cup limits.init_prices :
         LET r == Recentred(start_price[s], end_price[s], cp)
         IN /\ start_price' = [start_price EXCEPT ![s] = r[1]]
            /\ end_price' = [end_price EXCEPT ![s] = r[2]]
            /\ levels' = [levels EXCEPT ![s] =
                 IF Len(@) = 0
                 THEN calculate_grid_levels(r[1], r[2], config[s].grid_number,
                                            config[s].price_precision)
                 ELSE @]
    /\ hedge_strategies' =
         IF config[s].enable_hedge /\ Len(get_hedge_exchanges) > 0
         THEN [x \in DOMAIN hedge_strategies \cup {s} |->
                 IF x = s THEN get_hedge_exchanges ELSE hedge_strategies[x]]
         ELSE hedge_strategies
    /\ pc' = [pc EXCEPT ![s] = "ready"]
    /\ UNCHANGED <<configVars, callerVars, venueVars, orders, completed_trades, current_price,
                   batch, fetch_errors, handling, idx, placed, tradeVars, stored, since_save, hedge_orders,
                   reverse_lookup, uuid_count, hedge_call, hedge_polls, close_call, engineVars>>

\* what fetch_orders_by_ids can report as terminal: the referenced ids whose
\* venue status is closed or canceled
Terminal(ids) ==
    {id \in ids : /\ id \in DOMAIN exchange_orders[get_primary_exchange]
                  /\ exchange_orders[get_primary_exchange][id].status \in {"closed", "canceled"}}

\* a cycle whose update() is abandoned when the fetch of an order fails
BeginUpdateFetchRaises(s) ==
    /\ pc[s] = "ready"
    /\ is_running
    /\ \E d \in limits.delays :
         since_save' = [since_save EXCEPT ![s] = Min(SaveInterval, @ + d)]
    /\ \E p \in FetchedPrices(s) : current_price' = [current_price EXCEPT ![s] = p]
    /\ \E seen \in SUBSET Terminal(ActiveOrderIds(levels[s])) :
         IF seen # Terminal(ActiveOrderIds(levels[s]))
         THEN /\ pc' = [pc EXCEPT ![s] = "caught"]
              /\ UNCHANGED <<batch, fetch_errors>>
         ELSE /\ batch' = [batch EXCEPT ![s] =
                             [id \in seen |-> exchange_orders[get_primary_exchange][id].status]]
              /\ UNCHANGED fetch_errors
              /\ pc' = [pc EXCEPT ![s] = IF seen = {} THEN "grid" ELSE "handle"]
    /\ hedge_polls' = <<>>
    /\ UNCHANGED <<configVars, callerVars, venueVars, start_price, end_price, levels, orders,
                   completed_trades, handling, idx, placed, tradeVars, stored,
                   hedge_strategies, hedge_orders, reverse_lookup, uuid_count, hedge_call,
                   close_call, engineVars>>

\* one turn of the loop of run_strategy, up to the batch fetch of
\* check_order_status: the sleep since the last cycle took d seconds, update()
\* fetches the price, then the statuses of the referenced ids.  The fetch of a
\* single id may fail (fetch_orders_by_ids reports "error" for it); batch keeps
\* the entries the loop of check_order_status acts on, the closed and canceled
\* ones, and leaves out the entries it passes over (open, error); of the
\* referenced orders that are closed or canceled on the venue, those not seen
\* are the ones whose fetch failed (fetch_errors, kept while the loop has
\* entries to act on).
BeginUpdate(s) ==
    /\ pc[s] = "ready"
    /\ is_running
    /\ \E d \in limits.delays :
         since_save' = [since_save EXCEPT ![s] = Min(SaveInterval, @ + d)]
    /\ \E p \in FetchedPrices(s) : current_price' = [current_price EXCEPT ![s] = p]
    /\ \E seen \in SUBSET Terminal(ActiveOrderIds(levels[s])) :
         /\ batch' = [batch EXCEPT ![s] =
                        [id \in seen |-> exchange_orders[get_primary_exchange][id].status]]
         /\ fetch_errors' = [fetch_errors EXCEPT ![s] =
                               IF seen = {} THEN {}
                               ELSE Terminal(ActiveOrderIds(levels[s])) \ seen]
         /\ pc' = [pc EXCEPT ![s] = IF seen = {} THEN "grid" ELSE "handle"]
    /\ hedge_polls' = <<>>
    /\ UNCHANGED <<configVars, callerVars, venueVars, start_price, end_price, levels, orders,
                   completed_trades, handling, idx, placed, tradeVars, stored,
                   hedge_strategies, hedge_orders, reverse_lookup, uuid_count, hedge_call,
                   close_call, engineVars>>

\* the loop condition of run_strategy is false: the task ends
LoopExit(s) ==
    /\ pc[s] = "ready"
    /\ ~is_running
    /\ pc' = [pc EXCEPT ![s] = "done"]
    /\ tasks' = [tasks EXCEPT ![s] = @ - 1]
    /\ UNCHANGED <<configVars, callerVars, venueVars, start_price, end_price, levels, orders,
                   completed_trades, current_price, batch, fetch_errors, handling, idx, placed, tradeVars,
                   stored, since_save, hedgeVars, is_running, phase,
                   shutdown_pc, cancel_queue, cancel_requested, restarts>>

\* after the last order of the batch the cycle goes on to update_grid_orders
AfterHandle(s, order_id) ==
    LET rest == [id \in DOMAIN batch[s] \ {order_id} |-> batch[s][id]]
    IN /\ batch' = [batch EXCEPT ![s] = rest]
       /\ pc' = [pc EXCEPT ![s] = IF DOMAIN rest = {} THEN "grid" ELSE "handle"]
       /\ idx' = [idx EXCEPT ![s] = 1]
       /\ fetch_errors' = [fetch_errors EXCEPT ![s] = IF DOMAIN rest = {} THEN {} ELSE @]

\* handle_order_filled that leaves the filled order's reference on the level
handle_order_filled_keeps_ref(s, order_id) ==
    /\ UNCHANGED <<tradeVars, completed_trades>>
    /\ IF order_id \notin DOMAIN orders[s]
       THEN /\ Commit(s, keep(levels[s], orders[s]))
            /\ AfterHandle(s, order_id)
            /\ UNCHANGED handling
       ELSE
       LET order_data == orders[s][order_id]
           l == order_data.level_id
           om == update_order(orders[s], order_id,
                              [order_data EXCEPT !.status = "filled"])
       IN IF l \notin 1..Len(levels[s])
          THEN /\ Commit(s, keep(levels[s], om))
               /\ AfterHandle(s, order_id)
               /\ UNCHANGED handling
          ELSE /\ Commit(s, keep(
                     IF order_data.side = "buy"
                     THEN [levels[s] EXCEPT ![l].status = "BOUGHT"]
                     ELSE [levels[s] EXCEPT ![l].status = "SOLD"], om))
               /\ handling' = [handling EXCEPT ![s] = order_id]
               /\ pc' = [pc EXCEPT ![s] = "place"]
               /\ UNCHANGED <<batch, fetch_errors, idx>>

\* handle_order_filled(order_id, order_info) up to its placement call: the
\* order record, the level's status and reference
handle_order_filled(s, order_id) ==
    /\ UNCHANGED <<tradeVars, completed_trades>>
    /\ IF order_id \notin DOMAIN orders[s]
       THEN /\ Commit(s, keep(levels[s], orders[s]))
            /\ AfterHandle(s, order_id)
            /\ UNCHANGED handling
       ELSE
       LET order_data == orders[s][order_id]
           l == order_data.level_id
           om == update_order(orders[s], order_id,
                              [order_data EXCEPT !.status = "filled"])
       IN IF l \notin 1..Len(levels[s])
          THEN /\ Commit(s, keep(levels[s], om))
               /\ AfterHandle(s, order_id)
               /\ UNCHANGED handling
          ELSE /\ Commit(s, keep(
                     IF order_data.side = "buy"
                     THEN [levels[s] EXCEPT ![l].status = "BOUGHT",
                                            ![l].buy_order_id = NoOrder]
                     ELSE [levels[s] EXCEPT ![l].status = "SOLD",
                                            ![l].sell_order_id = NoOrder], om))
               /\ handling' = [handling EXCEPT ![s] = order_id]
               /\ pc' = [pc EXCEPT ![s] = "place"]
               /\ UNCHANGED <<batch, fetch_errors, idx>>

\* the rest of a handle_order_filled that records the trade only when the
\* opposite order was placed
PlaceOppositeThenRecord(s) ==
    /\ pc[s] = "place"
    /\ LET order_id == handling[s]
           order_data == orders[s][order_id]
           l == order_data.level_id
       IN /\ \E out \in Outcomes(s) :
               /\ IF order_data.side = "buy"
                  THEN Commit(s, place_sell_order(s, l, levels[s], orders[s], out[1], out[2]))
                  ELSE Commit(s, place_buy_order(s, l, levels[s], orders[s], out[1], out[2]))
               /\ IF out[1]
                  THEN /\ record_trade(s, order_id, order_data.side)
                       /\ completed_trades' = [completed_trades EXCEPT ![s] = @ + 1]
                  ELSE UNCHANGED <<tradeVars, completed_trades>>
          /\ AfterHandle(s, order_id)
          /\ handling' = [handling EXCEPT ![s] = NoOrder]
    /\ UNCHANGED <<configVars, callerVars, start_price, end_price, current_price, stored,
                   since_save, hedge_strategies, hedge_polls, close_call, engineVars>>

\* the rest of handle_order_filled: the opposite placement, record_trade,
\* the completed-trade counter
PlaceOpposite(s) ==
    /\ pc[s] = "place"
    /\ LET order_id == handling[s]
           order_data == orders[s][order_id]
           l == order_data.level_id
       IN /\ \E out \in Outcomes(s) :
               IF order_data.side = "buy"
               THEN Commit(s, place_sell_order(s, l, levels[s], orders[s], out[1], out[2]))
               ELSE Commit(s, place_buy_order(s, l, levels[s], orders[s], out[1], out[2]))
          /\ record_trade(s, order_id, order_data.side)
          /\ completed_trades' = [completed_trades EXCEPT ![s] = @ + 1]
          /\ AfterHandle(s, order_id)
          /\ handling' = [handling EXCEPT ![s] = NoOrder]
    /\ UNCHANGED <<configVars, callerVars, start_price, end_price, current_price, stored,
                   since_save, hedge_strategies, hedge_polls, close_call, engineVars>>

\* handle_order_canceled that sends a level whose sell order was canceled back
\* to READY
handle_order_canceled_to_ready(s, order_id) ==
    /\ UNCHANGED <<tradeVars, completed_trades, handling>>
    /\ AfterHandle(s, order_id)
    /\ IF order_id \notin DOMAIN orders[s]
       THEN Commit(s, keep(levels[s], orders[s]))
       ELSE
       LET order_data == orders[s][order_id]
           l == order_data.level_id
           om == update_order(orders[s], order_id,
                              [order_data EXCEPT !.status = "canceled"])
       IN IF l \notin 1..Len(levels[s])
          THEN Commit(s, keep(levels[s], om))
          ELSE IF order_data.side = "buy"
          THEN Commit(s, keep(
                  [levels[s] EXCEPT ![l].buy_order_id = NoOrder,
                      ![l].status = IF @ = "BUYING" THEN "READY" ELSE @], om))
          ELSE Commit(s, keep(
                  [levels[s] EXCEPT ![l].sell_order_id = NoOrder,
                      ![l].status = IF @ = "SELLING" THEN "READY" ELSE @], om))

\* handle_order_canceled that leaves the canceled order's reference on the level
handle_order_canceled_keeps_ref(s, order_id) ==
    /\ UNCHANGED <<tradeVars, completed_trades, handling>>
    /\ AfterHandle(s, order_id)
    /\ IF order_id \notin DOMAIN orders[s]
       THEN Commit(s, keep(levels[s], orders[s]))
       ELSE
       LET order_data == orders[s][order_id]
           l == order_data.level_id
           om == update_order(orders[s], order_id,
                              [order_data EXCEPT !.status = "canceled"])
       IN IF l \notin 1..Len(levels[s])
          THEN Commit(s, keep(levels[s], om))
          ELSE IF order_data.side = "buy"
          THEN Commit(s, keep(
                  [levels[s] EXCEPT ![l].status = IF @ = "BUYING" THEN "READY" ELSE @], om))
          ELSE Commit(s, keep(
                  [levels[s] EXCEPT ![l].status = IF @ = "SELLING" THEN "BOUGHT" ELSE @], om))

\* handle_order_canceled(order_id)
handle_order_canceled(s, order_id) ==
    /\ UNCHANGED <<tradeVars, completed_trades, handling>>
    /\ AfterHandle(s, order_id)
    /\ IF order_id \notin DOMAIN orders[s]
       THEN Commit(s, keep(levels[s], orders[s]))
       ELSE
       LET order_data == orders[s][order_id]
           l == order_data.level_id
           om == update_order(orders[s], order_id,
                              [order_data EXCEPT !.status = "canceled"])
       IN IF l \notin 1..Len(levels[s])
          THEN Commit(s, keep(levels[s], om))
          ELSE IF order_data.side = "buy"
          THEN Commit(s, keep(
                  [levels[s] EXCEPT ![l].buy_order_id = NoOrder,
                      ![l].status = IF @ = "BUYING" THEN "READY" ELSE @], om))
          ELSE Commit(s, keep(
                  [levels[s] EXCEPT ![l].sell_order_id = NoOrder,
                      ![l].status = IF @ = "SELLING" THEN "BOUGHT" ELSE @], om))

\* the loop of check_order_status over orders_info, one order per step
HandleOrder(s) ==
    /\ pc[s] = "handle"
    /\ \E order_id \in DOMAIN batch[s] :
         /\ IF batch[s][order_id] = "closed"
            THEN handle_order_filled(s, order_id)
            ELSE handle_order_canceled(s, order_id)
    /\ UNCHANGED <<configVars, callerVars, start_price, end_price, current_price, stored,
                   since_save, hedge_strategies, hedge_polls, close_call, engineVars>>

\* update_grid_orders with a non-strict comparison for the buy placement
update_grid_orders_inclusive(s, l, out) ==
    LET level == levels[s][l]
        lv == levels[s]
        om == orders[s]
    IN IF level.status = "READY"
       THEN IF current_price[s] <= level.price
            THEN place_buy_order(s, l, lv, om, out[1], out[2])
            ELSE IF current_price[s] > level.price
            THEN place_sell_order(s, l, lv, om, out[1], out[2])
            ELSE keep(lv, om)
       ELSE IF level.status = "BOUGHT" /\ level.sell_order_id = NoOrder
       THEN place_sell_order(s, l, lv, om, out[1], out[2])
       ELSE IF level.status = "SOLD" /\ level.buy_order_id = NoOrder
       THEN place_buy_order(s, l, lv, om, out[1], out[2])
       ELSE keep(lv, om)

\* update_grid_orders that acts on READY levels only
update_grid_orders_ready_only(s, l, out) ==
    LET level == levels[s][l]
        lv == levels[s]
        om == orders[s]
    IN IF level.status = "READY"
       THEN IF current_price[s] < level.price
            THEN place_buy_order(s, l, lv, om, out[1], out[2])
            ELSE IF current_price[s] > level.price
            THEN place_sell_order(s, l, lv, om, out[1], out[2])
            ELSE keep(lv, om)
       ELSE keep(lv, om)

\* the body of the loop of update_grid_orders for one level
update_grid_orders(s, l, out) ==
    LET level == levels[s][l]
        lv == levels[s]
        om == orders[s]
    IN IF level.status = "READY"
       THEN IF current_price[s] < level.price
            THEN place_buy_order(s, l, lv, om, out[1], out[2])
            ELSE IF current_price[s] > level.price
            THEN place_sell_order(s, l, lv, om, out[1], out[2])
            ELSE keep(lv, om)
       ELSE IF level.status = "BOUGHT" /\ level.sell_order_id = NoOrder
       THEN place_sell_order(s, l, lv, om, out[1], out[2])
       ELSE IF level.status = "SOLD" /\ level.buy_order_id = NoOrder
       THEN place_buy_order(s, l, lv, om, out[1], out[2])
       ELSE keep(lv, om)

\* whether the step for level l calls a placement at all
Places(s, l) ==
    LET level == levels[s][l]
    IN \/ level.status = "READY" /\ current_price[s] # level.price
       \/ level.status = "BOUGHT" /\ level.sell_order_id = NoOrder
       \/ level.status = "SOLD" /\ level.buy_order_id = NoOrder

\* a loop of update_grid_orders that ends at the first placement that fails
UpdateGridOrdersUntilFailure(s) ==
    /\ pc[s] = "grid"
    /\ \E out \in IF Places(s, idx[s]) THEN Outcomes(s) ELSE {<<FALSE, {}>>} :
          /\ Commit(s, update_grid_orders(s, idx[s], out))
          /\ IF idx[s] >= Len(levels[s]) \/ (Places(s, idx[s]) /\ ~out[1])
             THEN /\ pc' = [pc EXCEPT ![s] = "finish"]
                  /\ idx' = [idx EXCEPT ![s] = 1]
             ELSE /\ idx' = [idx EXCEPT ![s] = @ + 1]
                  /\ UNCHANGED pc
    /\ UNCHANGED <<configVars, callerVars, start_price, end_price, completed_trades,
                   current_price, batch, fetch_errors, handling, tradeVars, stored, since_save,
                   hedge_strategies, hedge_polls, close_call, engineVars>>

UpdateGridOrders(s) ==
    /\ pc[s] = "grid"
    /\ \E out \in IF Places(s, idx[s]) THEN Outcomes(s) ELSE {<<FALSE, {}>>} :
          Commit(s, update_grid_orders(s, idx[s], out))
    /\ IF idx[s] >= Len(levels[s])
       THEN /\ pc' = [pc EXCEPT ![s] = "finish"]
            /\ idx' = [idx EXCEPT ![s] = 1]
       ELSE /\ idx' = [idx EXCEPT ![s] = @ + 1]
            /\ UNCHANGED pc
    /\ UNCHANGED <<configVars, callerVars, start_price, end_price, completed_trades,
                   current_price, batch, fetch_errors, handling, tradeVars, stored, since_save,
                   hedge_strategies, hedge_polls, close_call, engineVars>>

(* ------------------------ HedgeManager: closing positions ------------ *)
\* position.get("size") when the dict has no such key, or holds 0: both fail
\* the test `not position_size`
Missing == 0
PositionSides == {"long", "short"}
PositionSizes == {Missing, 0 - 1, 1}

\* the position lists a venue can report, at most MaxPositions entries
PositionLists ==
    UNION {[1..n -> [side : PositionSides, size : PositionSizes]] : n \in 0..MaxPositions}

\* what the client of exchange e can list: positions of either side for the
\* futures class, balances (never negative) for the spot class
ReportedBy(e) ==
    IF exchanges[e].name = "binance"
    THEN {l \in PositionLists : \A k \in DOMAIN l : l[k].side = "long" /\ l[k].size >= 0}
    ELSE PositionLists

\* exchange.fetch_positions(trading_pair) of the exchange classes: the futures
\* class hands on the dicts of its client; the spot class builds, for every
\* balance with total > 0, a dict of its own with side "long" and the keys
\* symbol, amount, free, used (no "size")
fetch_positions(e, reported) ==
    IF exchanges[e].name = "binance"
    THEN LET balances == SelectSeq(reported, LAMBDA b : b.size > 0)
         IN [i \in 1..Len(balances) |-> [side |-> "long", size |-> Missing]]
    ELSE reported

Abs(x) == IF x < 0 THEN 0 - x ELSE x

\* the create_market_order calls close_all_hedge_positions makes for one
\* position.  Both exchange classes define create_market_order(symbol, side,
\* amount): the call with reduce_only=True raises TypeError before anything is
\* sent; the call without it is sent, and the venue takes it or not.
close_position(position, taken) ==
    IF position.side = "" \/ position.size = Missing THEN <<>>
    ELSE LET close_side == IF position.side = "long" THEN "sell" ELSE "buy"
             position_amount == Abs(position.size)
         IN << [side |-> close_side, amount |-> position_amount, reduce_only |-> TRUE,
                sent |-> FALSE, ok |-> FALSE],
               [side |-> close_side, amount |-> position_amount, reduce_only |-> FALSE,
                sent |-> TRUE, ok |-> taken] >>

\* close_all_hedge_positions(strategy_id): reported[i] is what the i-th hedge
\* exchange's client lists, <<i, j>> \in taken when the venue takes the order
\* that closes its position j
close_all_hedge_positions(s, reported, taken) ==
    IF s \notin DOMAIN hedge_strategies THEN [strategy |-> s, exchanges |-> <<>>]
    ELSE LET exs == hedge_strategies[s]
         IN [strategy |-> s,
             exchanges |->
               [i \in 1..Len(exs) |->
                  LET positions == fetch_positions(exs[i], reported[i])
                  IN [exchange |-> exs[i],
                      reported |-> reported[i],
                      positions |-> positions,
                      orders |-> [j \in 1..Len(positions) |->
                                    close_position(positions[j], <<i, j>> \in taken)]]]]

(* ------------------------ HedgeManager: reconciliation ---------------- *)
\* what fetch_order on the exchange resolved by name reports for a hedge order,
\* "error" when the fetch raises (poll failure, or the order is not on that venue)
PollStatus(member, hedge_order_id, failed) ==
    LET e == get_exchange_by_name(member.exchange_name)
    IN IF hedge_order_id \in failed \/ hedge_order_id \notin DOMAIN exchange_orders[e]
       THEN "error" ELSE exchange_orders[e][hedge_order_id].status

\* an update(strategy_id) whose polling ends at the first fetch_order that
\* raises: the members after it keep their status
hedge_update_stops_at_failure(s, failed) ==
    IF s \notin DOMAIN hedge_strategies THEN hedge_orders
    ELSE [k \in DOMAIN hedge_orders |->
            LET g == hedge_orders[k]
            IN IF g.strategy_id # s \/ g.status # "open" THEN g
               ELSE [g EXCEPT !.orders =
                       [h \in DOMAIN g.orders |->
                          LET m == g.orders[h]
                              raised == {x \in failed : x < h}
                          IN IF m.status # "open" \/ raised # {} THEN m
                             ELSE IF get_exchange_by_name(m.exchange_name) = "" THEN m
                             ELSE IF PollStatus(m, h, failed) = "closed"
                             THEN [m EXCEPT !.status = "filled"]
                             ELSE IF PollStatus(m, h, failed) = "canceled"
                             THEN [m EXCEPT !.status = "canceled"]
                             ELSE m]]]

\* HedgeManager.update(strategy_id)
hedge_update(s, failed) ==
    IF s \notin DOMAIN hedge_strategies THEN hedge_orders
    ELSE [k \in DOMAIN hedge_orders |->
            LET g == hedge_orders[k]
            IN IF g.strategy_id # s \/ g.status # "open" THEN g
               ELSE [g EXCEPT !.orders =
                       [h \in DOMAIN g.orders |->
                          LET m == g.orders[h]
                          IN IF m.status # "open" THEN m
                             ELSE IF get_exchange_by_name(m.exchange_name) = "" THEN m
                             ELSE IF PollStatus(m, h, failed) = "closed"
                             THEN [m EXCEPT !.status = "filled"]
                             ELSE IF PollStatus(m, h, failed) = "canceled"
                             THEN [m EXCEPT !.status = "canceled"]
                             ELSE m]]]

\* the fetch_order calls update(strategy_id) makes: for every open member of
\* an open group of the strategy whose exchange is found by name, the exchange
\* asked and what it answered
hedge_update_polls(s, failed) ==
    IF s \notin DOMAIN hedge_strategies THEN <<>>
    ELSE LET open == {k \in DOMAIN hedge_orders :
                        /\ hedge_orders[k].strategy_id = s
                        /\ hedge_orders[k].status = "open"}
             asked == UNION {{h \in DOMAIN hedge_orders[k].orders :
                               /\ hedge_orders[k].orders[h].status = "open"
                               /\ get_exchange_by_name(
                                     hedge_orders[k].orders[h].exchange_name) # ""} :
                            k \in open}
             member(h) == LET k == CHOOSE x \in open : h \in DOMAIN hedge_orders[x].orders
                          IN hedge_orders[k].orders[h]
         IN [h \in asked |->
               [exchange |-> get_exchange_by_name(member(h).exchange_name),
                result |-> PollStatus(member(h), h, failed)]]

\* the open members update(strategy_id) polls
OpenMembers(s) ==
    UNION {{h \in DOMAIN hedge_orders[k].orders :
               hedge_orders[k].orders[h].status = "open"} :
           k \in {x \in DOMAIN hedge_orders :
                     /\ hedge_orders[x].strategy_id = s
                     /\ hedge_orders[x].status = "open"}}

\* HedgeManager.handle_order_filled(original_order_id)
hedge_handle_order_filled(key) ==
    IF key \notin DOMAIN hedge_orders THEN hedge_orders
    ELSE IF \A h \in DOMAIN hedge_orders[key].orders :
              hedge_orders[key].orders[h].status = "filled"
    THEN [hedge_orders EXCEPT ![key].status = "filled"]
    ELSE hedge_orders

\* the rest of update(): hedge_manager.update when hedging is enabled,
\* calculate_profit (reads the trade history), save_state; then the sleep starts
FinishUpdate(s) ==
    /\ pc[s] = "finish"
    /\ IF config[s].enable_hedge
       THEN \E failed \in SUBSET OpenMembers(s) :
               /\ hedge_orders' = hedge_update(s, failed)
               /\ hedge_polls' = hedge_update_polls(s, failed)
       ELSE UNCHANGED <<hedge_orders, hedge_polls>>
    /\ ensure_cache_initialized(s)
    /\ LET r == save_grid_state(stored, since_save, s, Snapshot(s), now, TRUE)
       IN /\ stored' = r.stored
          /\ since_save' = r.since_save
    /\ pc' = [pc EXCEPT ![s] = "ready"]
    /\ current_price' = [current_price EXCEPT ![s] = 0]
    /\ placed' = [placed EXCEPT ![s] = NoPlacement]
    /\ UNCHANGED <<configVars, callerVars, venueVars, start_price, end_price, levels, orders,
                   completed_trades, batch, fetch_errors, handling, idx, hedge_strategies, reverse_lookup,
                   uuid_count, hedge_call, close_call, engineVars>>

(* ------------------------------ the venues ---------------------------- *)
\* an open order is matched on its venue
VenueFill ==
    /\ \E e \in DOMAIN exchange_orders : \E id \in DOMAIN exchange_orders[e] :
         /\ exchange_orders[e][id].status = "open"
         /\ exchange_orders' = [exchange_orders EXCEPT ![e][id].status = "closed"]
    /\ UNCHANGED <<configVars, callerVars, next_order_id, start_price, end_price, levels, orders,
                   completed_trades, pc, current_price, batch, fetch_errors, handling, idx, placed, tradeVars,
                   stored, since_save, hedgeVars, engineVars>>

\* an open order is canceled on its venue by someone else
VenueCancel ==
    /\ \E e \in DOMAIN exchange_orders : \E id \in DOMAIN exchange_orders[e] :
         /\ exchange_orders[e][id].status = "open"
         /\ exchange_orders' = [exchange_orders EXCEPT ![e][id].status = "canceled"]
    /\ UNCHANGED <<configVars, callerVars, next_order_id, start_price, end_price, levels, orders,
                   completed_trades, pc, current_price, batch, fetch_errors, handling, idx, placed, tradeVars,
                   stored, since_save, hedgeVars, engineVars>>

(* ------------------------------ GridEngine ---------------------------- *)
strategyVars == <<start_price, end_price, levels, orders, completed_trades,
                  current_price, batch, fetch_errors, handling, idx, placed>>

\* a strategy whose polling task is inside update(), between the price fetch
\* and the save of its state
InCycle(s) == pc[s] \in {"handle", "place", "grid", "finish"}

\* an exception that leaves update() without being caught by the inner handler
\* of run_strategy: it reaches the outer one and the task ends
UpdateRaisesEscapes(s) ==
    /\ InCycle(s)
    /\ pc' = [pc EXCEPT ![s] = "done"]
    /\ tasks' = [tasks EXCEPT ![s] = @ - 1]
    /\ UNCHANGED <<configVars, callerVars, venueVars, strategyVars, tradeVars, stored, since_save,
                   hedgeVars, is_running, phase, shutdown_pc, cancel_queue,
                   cancel_requested, restarts>>

\* run_strategy, lines 137-140: the call update() is suspended in raises; the
\* exception leaves update() at that point and is caught and logged by the loop
UpdateRaises(s) ==
    /\ InCycle(s)
    /\ pc' = [pc EXCEPT ![s] = "caught"]
    /\ UNCHANGED <<configVars, callerVars, venueVars, strategyVars, tradeVars, stored, since_save,
                   hedgeVars, engineVars>>

\* run_strategy, line 142: after the handler the loop sleeps as after any cycle;
\* the locals of the abandoned update() are gone
AfterError(s) ==
    /\ pc[s] = "caught"
    /\ pc' = [pc EXCEPT ![s] = "ready"]
    /\ current_price' = [current_price EXCEPT ![s] = 0]
    /\ batch' = [batch EXCEPT ![s] = <<>>]
    /\ fetch_errors' = [fetch_errors EXCEPT ![s] = {}]
    /\ handling' = [handling EXCEPT ![s] = NoOrder]
    /\ idx' = [idx EXCEPT ![s] = 1]
    /\ placed' = [placed EXCEPT ![s] = NoPlacement]
    /\ UNCHANGED <<configVars, callerVars, venueVars, start_price, end_price, levels, orders,
                   completed_trades, tradeVars, stored, since_save, hedgeVars, engineVars>>

\* a cancel_hedge_orders that marks a member canceled only when its venue
\* confirmed the cancellation
cancel_hedge_orders_confirmed(key, ok) ==
    IF key \notin DOMAIN hedge_orders
    THEN [hedge_orders |-> hedge_orders, exchange_orders |-> exchange_orders]
    ELSE
    LET g == hedge_orders[key]
        tried == {h \in DOMAIN g.orders :
                    /\ g.orders[h].status = "open"
                    /\ get_exchange_by_name(g.orders[h].exchange_name) # ""}
        done == {h \in tried \cap ok :
                   LET e == get_exchange_by_name(g.orders[h].exchange_name)
                   IN /\ h \in DOMAIN exchange_orders[e]
                      /\ exchange_orders[e][h].status = "open"}
    IN [hedge_orders |->
          [hedge_orders EXCEPT ![key] =
             [g EXCEPT !.status = "canceled",
                       !.orders = [h \in DOMAIN g.orders |->
                                     IF h \in done
                                     THEN [g.orders[h] EXCEPT !.status = "canceled"]
                                     ELSE g.orders[h]]]],
        exchange_orders |->
          [e \in DOMAIN exchange_orders |->
             [h \in DOMAIN exchange_orders[e] |->
                IF h \in done /\ get_exchange_by_name(g.orders[h].exchange_name) = e
                THEN [exchange_orders[e][h] EXCEPT !.status = "canceled"]
                ELSE exchange_orders[e][h]]]]

\* HedgeManager.cancel_hedge_orders(original_order_id): for every open member
\* the exchange is looked up by name and asked to cancel; `ok` are the members
\* whose request the exchange carries out.  cancel_order of both exchange
\* classes reports a failure by returning False, so the member is marked
\* canceled after any answer; a member whose exchange is not found is skipped.
cancel_hedge_orders(key, ok) ==
    IF key \notin DOMAIN hedge_orders
    THEN [hedge_orders |-> hedge_orders, exchange_orders |-> exchange_orders]
    ELSE
    LET g == hedge_orders[key]
        tried == {h \in DOMAIN g.orders :
                    /\ g.orders[h].status = "open"
                    /\ get_exchange_by_name(g.orders[h].exchange_name) # ""}
        done == {h \in tried \cap ok :
                   LET e == get_exchange_by_name(g.orders[h].exchange_name)
                   IN /\ h \in DOMAIN exchange_orders[e]
                      /\ exchange_orders[e][h].status = "open"}
    IN [hedge_orders |->
          [hedge_orders EXCEPT ![key] =
             [g EXCEPT !.status = "canceled",
                       !.orders = [h \in DOMAIN g.orders |->
                                     IF h \in tried
                                     THEN [g.orders[h] EXCEPT !.status = "canceled"]
                                     ELSE g.orders[h]]]],
        exchange_orders |->
          [e \in DOMAIN exchange_orders |->
             [h \in DOMAIN exchange_orders[e] |->
                IF h \in done /\ get_exchange_by_name(g.orders[h].exchange_name) = e
                THEN [exchange_orders[e][h] EXCEPT !.status = "canceled"]
                ELSE exchange_orders[e][h]]]]

\* a call of cancel_hedge_orders for one of the stored groups
CancelHedgeOrders ==
    /\ \E key \in DOMAIN hedge_orders :
         \E ok \in SUBSET DOMAIN hedge_orders[key].orders :
            LET r == cancel_hedge_orders(key, ok)
            IN /\ hedge_orders' = r.hedge_orders
               /\ exchange_orders' = r.exchange_orders
    /\ UNCHANGED <<configVars, callerVars, next_order_id, strategyVars, pc, tradeVars, stored,
                   since_save, hedge_strategies, reverse_lookup, uuid_count, hedge_call,
                   hedge_polls, close_call,
                   engineVars>>

\* start() without its test of the running flag: a second call creates a
\* second task per strategy
StartUnguarded ==
    /\ phase \in {"initialized", "running"}
    /\ is_running' = TRUE
    /\ phase' = "running"
    /\ pc' = [s \in strategies |-> "start"]
    /\ tasks' = [s \in strategies |-> tasks[s] + 1]
    /\ UNCHANGED <<configVars, callerVars, venueVars, strategyVars, tradeVars, stored,
                   since_save, hedgeVars, shutdown_pc, cancel_queue,
                   cancel_requested, restarts>>

\* GridEngine.start: one run_strategy task per strategy
Start ==
    /\ phase \in {"initialized", "running"}
    /\ ~is_running
    /\ is_running' = TRUE
    /\ phase' = "running"
    /\ pc' = [s \in strategies |-> "start"]
    /\ tasks' = [s \in strategies |-> tasks[s] + 1]
    /\ UNCHANGED <<configVars, callerVars, venueVars, strategyVars, tradeVars, stored,
                   since_save, hedgeVars, shutdown_pc, cancel_queue,
                   cancel_requested, restarts>>

\* GridEngine.shutdown, lines 187-194: the flag, one shutdown task per strategy
Shutdown ==
    /\ phase = "running"
    /\ is_running
    /\ is_running' = FALSE
    /\ phase' = "stopping"
    /\ shutdown_pc' = [s \in strategies |-> "pending"]
    /\ UNCHANGED <<configVars, callerVars, venueVars, strategyVars, pc, tradeVars, stored,
                   since_save, hedgeVars, cancel_queue, cancel_requested, restarts, tasks>>

\* GridStrategy.shutdown -> cancel_all_orders: collect the referenced ids
CancelAllOrders(s) ==
    /\ shutdown_pc[s] = "pending"
    /\ LET ids == SetToSeq(ActiveOrderIds(levels[s]))
       IN /\ cancel_queue' = [cancel_queue EXCEPT ![s] = [ids |-> ids, pos |-> 1]]
          /\ shutdown_pc' = [shutdown_pc EXCEPT ![s] =
                               IF Len(ids) = 0 THEN "done" ELSE "cancelling"]
    /\ UNCHANGED <<configVars, callerVars, venueVars, strategyVars, pc, tradeVars, stored,
                   since_save, hedgeVars, is_running, phase, cancel_requested,
                   restarts, tasks>>

\* one turn of the loop of cancel_all_orders: the venue cancels the order when
\* the request gets through and the order is still open
CancelOrder(s) ==
    /\ shutdown_pc[s] = "cancelling"
    /\ LET q == cancel_queue[s]
           id == q.ids[q.pos]
       IN /\ cancel_requested' = cancel_requested \cup {id}
          /\ \E through \in BOOLEAN :
               exchange_orders' =
                 IF /\ through
                    /\ id \in DOMAIN exchange_orders[get_primary_exchange]
                    /\ exchange_orders[get_primary_exchange][id].status = "open"
                 THEN [exchange_orders EXCEPT ![get_primary_exchange][id].status = "canceled"]
                 ELSE exchange_orders
          /\ cancel_queue' = [cancel_queue EXCEPT ![s].pos = @ + 1]
          /\ shutdown_pc' = [shutdown_pc EXCEPT ![s] =
                               IF q.pos = Len(q.ids) THEN "done" ELSE "cancelling"]
    /\ UNCHANGED <<configVars, callerVars, next_order_id, strategyVars, pc, tradeVars, stored,
                   since_save, hedgeVars, is_running, phase, restarts, tasks>>

\* the cancellation of the background tasks without the wait for the strategy
\* shutdowns
CancelTasksEarly ==
    /\ phase = "stopping"
    /\ pc' = [s \in strategies |-> IF pc[s] = "done" THEN "done" ELSE "cancelled"]
    /\ phase' = "tasks_cancelled"
    /\ tasks' = [s \in strategies |-> 0]
    /\ UNCHANGED <<configVars, callerVars, venueVars, strategyVars, tradeVars, stored,
                   since_save, hedgeVars, is_running, shutdown_pc, cancel_queue,
                   cancel_requested, restarts>>

\* shutdown, lines 196-214: after the gather of the strategy shutdowns, cancel
\* and await the background tasks
CancelTasks ==
    /\ phase = "stopping"
    /\ \A s \in strategies : shutdown_pc[s] = "done"
    /\ pc' = [s \in strategies |-> IF pc[s] = "done" THEN "done" ELSE "cancelled"]
    /\ phase' = "tasks_cancelled"
    /\ tasks' = [s \in strategies |-> 0]
    /\ UNCHANGED <<configVars, callerVars, venueVars, strategyVars, tradeVars, stored,
                   since_save, hedgeVars, is_running, shutdown_pc, cancel_queue,
                   cancel_requested, restarts>>

RECURSIVE SaveAll(_, _, _)
SaveAll(st, since, todo) ==
    IF todo = {} THEN [stored |-> st, since_save |-> since]
    ELSE LET s == CHOOSE x \in todo : TRUE
             r == save_grid_state(st, since, s, Snapshot(s), now, TRUE)
         IN SaveAll(r.stored, r.since_save, todo \ {s})

\* shutdown, lines 216-222: save_state of every strategy
SaveFinalState ==
    /\ phase = "tasks_cancelled"
    /\ LET r == SaveAll(stored, since_save, strategies)
       IN /\ stored' = r.stored
          /\ since_save' = r.since_save
    /\ phase' = "saved"
    /\ UNCHANGED <<configVars, callerVars, venueVars, strategyVars, pc, tradeVars, hedgeVars,
                   is_running, shutdown_pc, cancel_queue, cancel_requested, restarts, tasks>>

\* shutdown, lines 224-229: exchange_manager.close()
CloseExchanges ==
    /\ phase = "saved"
    /\ phase' = "closed"
    /\ UNCHANGED <<configVars, callerVars, venueVars, strategyVars, pc, tradeVars, stored,
                   since_save, hedgeVars, is_running, shutdown_pc, cancel_queue,
                   cancel_requested, restarts, tasks>>

\* what can be wrong with a stored record when it is read back: the file is not
\* JSON, or the value of start_price, of an entry of grid_levels, or of orders
\* is not what _restore_state expects
DamageKinds == {"unreadable", "bounds", "levels", "orders"}

\* _restore_state assigns in the order start_price, end_price, completed_trades,
\* grid_levels, orders and leaves at the first value that raises, keeping what
\* it has assigned; load_grid_state gives None for a file that is not JSON
RestoredFields(damage) ==
    IF damage = "" THEN {"start_price", "end_price", "completed_trades", "levels", "orders"}
    ELSE IF damage = "orders" THEN {"start_price", "end_price", "completed_trades", "levels"}
    ELSE IF damage = "levels" THEN {"start_price", "end_price", "completed_trades"}
    ELSE {}

\* GridStrategy.__init__ with the saved state, if any: _restore_state
Restored(s, field, fresh) ==
    IF stored[s].exists /\ field \in RestoredFields(stored[s].damage)
    THEN stored[s][field] ELSE fresh

\* the stored record of a strategy is damaged while the process is down
DamageState(s) ==
    /\ phase = "closed"
    /\ stored[s].exists
    /\ stored[s].damage = ""
    /\ \E kind \in DamageKinds : stored' = [stored EXCEPT ![s].damage = kind]
    /\ UNCHANGED <<configVars, callerVars, venueVars, strategyVars, pc, tradeVars, since_save,
                   hedgeVars, engineVars>>

\* the process is started again: GridEngine.__init__, initialize_strategies
Restart ==
    /\ phase = "closed"
    /\ restarts < limits.restarts
    /\ restarts' = restarts + 1
    /\ phase' = "initialized"
    /\ is_running' = FALSE
    /\ start_price' = [s \in strategies |-> Restored(s, "start_price", config[s].low_price)]
    /\ end_price' = [s \in strategies |-> Restored(s, "end_price", config[s].high_price)]
    /\ levels' = [s \in strategies |-> Restored(s, "levels", <<>>)]
    /\ orders' = [s \in strategies |-> Restored(s, "orders", <<>>)]
    /\ completed_trades' = [s \in strategies |-> Restored(s, "completed_trades", 0)]
    /\ pc' = [s \in strategies |-> "new"]
    /\ current_price' = [s \in strategies |-> 0]
    /\ batch' = [s \in strategies |-> <<>>]
    /\ fetch_errors' = [s \in strategies |-> {}]
    /\ handling' = [s \in strategies |-> NoOrder]
    /\ idx' = [s \in strategies |-> 1]
    /\ placed' = [s \in strategies |-> NoPlacement]
    /\ trades_cache' = [s \in strategies |-> <<>>]
    /\ cache_known' = {}
    /\ since_save' = [s \in strategies |-> SaveInterval]
    /\ hedge_strategies' = <<>>
    /\ hedge_orders' = <<>>
    /\ reverse_lookup' = <<>>
    /\ hedge_call' = NoCall
    /\ hedge_polls' = <<>>
    /\ close_call' = NoClose
    /\ shutdown_pc' = [s \in strategies |-> "none"]
    /\ cancel_queue' = [s \in strategies |-> [ids |-> <<>>, pos |-> 1]]
    /\ cancel_requested' = {}
    /\ tasks' = [s \in strategies |-> 0]
    /\ UNCHANGED <<configVars, callerVars, venueVars, trades_file, recorded, stored, uuid_count>>

\* an initialize() that gives up as soon as one configured exchange fails
EngineInitializeStrict ==
    /\ phase = "constructed"
    /\ \E up \in SUBSET DOMAIN exchange_configs :
         /\ exchanges' = [e \in up |-> exchange_configs[e]]
         /\ IF up # DOMAIN exchange_configs
            THEN phase' = "failed" /\ strategies' = {}
            ELSE /\ phase' = "initialized"
                 /\ strategies' = {s \in DOMAIN config : config[s].valid}
    /\ UNCHANGED <<exchange_configs, config, limits, callerVars, venueVars, strategyVars, pc,
                   tradeVars, stored, since_save, hedgeVars, is_running, shutdown_pc,
                   cancel_queue, cancel_requested, restarts, tasks>>

\* GridEngine.initialize: ExchangeManager.initialize registers the exchanges
\* `up` whose initialize() succeeds (a failing one is logged and left out);
\* with none registered initialize returns False before any strategy is
\* constructed; otherwise initialize_strategies constructs and registers every
\* strategy whose constructor does not raise (valid: its config holds what
\* GridStrategy.__init__ reads)
EngineInitialize ==
    /\ phase = "constructed"
    /\ \E up \in SUBSET DOMAIN exchange_configs :
         /\ exchanges' = [e \in up |-> exchange_configs[e]]
         /\ IF up = {}
            THEN phase' = "failed" /\ strategies' = {}
            ELSE /\ phase' = "initialized"
                 /\ strategies' = {s \in DOMAIN config : config[s].valid}
    /\ UNCHANGED <<exchange_configs, config, limits, callerVars, venueVars, strategyVars, pc,
                   tradeVars, stored, since_save, hedgeVars, is_running, shutdown_pc,
                   cancel_queue, cancel_requested, restarts, tasks>>

(* ------------------------ OrderManager as it is called ---------------- *)
\* the order records a caller hands to add_order at the present time
OrderData ==
    [level_id : 1..MaxTrackedLevels, side : Sides, status : OrderStatuses,
     timestamp : {now}]

\* time passes
Tick ==
    /\ now < MaxClock
    /\ now' = now + 1
    /\ UNCHANGED <<configVars, venueVars, strategyVars, pc, tradeVars, stored, since_save,
                   hedgeVars, engineVars, returned, held, manager_start_time, file_storage>>

\* a call add_order(order_id, order_data) on the tracker of strategy s
AddOrder(s) ==
    /\ \E order_id \in 1..MaxTrackedIds : \E order_data \in OrderData :
         /\ orders' = [orders EXCEPT ![s] = add_order(@, order_id, order_data)]
         /\ returned' = [op |-> "add_order", arg |-> order_id,
                         ok |-> add_order_returns(orders[s], order_id), count |-> 0]
    /\ UNCHANGED <<configVars, venueVars, start_price, end_price, levels,
                   completed_trades, current_price, batch, fetch_errors, handling, idx, placed, pc,
                   tradeVars, stored, since_save, hedgeVars, engineVars, now, held, manager_start_time, file_storage>>

\* a call clean_old_orders(max_age); the records it deletes are no longer the
\* tracker's, whoever still holds them
CleanOldOrders(s) ==
    /\ \E max_age \in 0..MaxClock :
         LET r == clean_old_orders(orders[s], now, max_age)
         IN /\ orders' = [orders EXCEPT ![s] = r.orders]
            /\ returned' = [op |-> "clean_old_orders", arg |-> max_age, ok |-> TRUE,
                            count |-> r.count]
            /\ held' = [id \in DOMAIN held |->
                          IF id \in DOMAIN r.orders THEN held[id]
                          ELSE [held[id] EXCEPT !.shared = FALSE]]
    /\ UNCHANGED <<configVars, venueVars, start_price, end_price, levels,
                   completed_trades, current_price, batch, fetch_errors, handling, idx, placed, pc,
                   tradeVars, stored, since_save, hedgeVars, engineVars, now, manager_start_time, file_storage>>

\* a query of the tracker; the caller keeps the result
QueryOrders(s) ==
    /\ \/ \E status \in OrderStatuses : held' = get_orders_by_status(orders[s], status)
       \/ \E side \in Sides : held' = get_orders_by_side(orders[s], side)
       \/ \E l \in 1..MaxTrackedLevels : held' = get_orders_by_level_id(orders[s], l)
       \/ \E t1 \in 0..MaxClock : held' = get_orders_by_time_range(orders[s], t1, now)
    /\ returned' = [op |-> "query", arg |-> 0, ok |-> TRUE, count |-> 0]
    /\ UNCHANGED <<configVars, venueVars, strategyVars, pc, tradeVars, stored, since_save,
                   hedgeVars, engineVars, now, manager_start_time, file_storage>>

\* get_order(order_id), as handle_order_filled and handle_order_canceled call it
GetOrder(s) ==
    /\ \E order_id \in DOMAIN orders[s] : held' = get_order(orders[s], order_id)
    /\ returned' = [op |-> "get_order", arg |-> 0, ok |-> TRUE, count |-> 0]
    /\ UNCHANGED <<configVars, venueVars, strategyVars, pc, tradeVars, stored, since_save,
                   hedgeVars, engineVars, now, manager_start_time, file_storage>>

\* the caller writes into a record of the result it holds (as
\* handle_order_filled does with order_data["status"] = "filled"): a record
\* that is the tracker's own changes in the tracker too
MutateHeld(s) ==
    /\ \E id \in DOMAIN held : \E status \in {"filled", "canceled"} :
         /\ held[id].data.status # status
         /\ held' = [held EXCEPT ![id].data.status = status]
         /\ orders' = IF held[id].shared
                       THEN [orders EXCEPT ![s][id].status = status]
                       ELSE orders
    /\ UNCHANGED <<configVars, venueVars, start_price, end_price, levels,
                   completed_trades, current_price, batch, fetch_errors, handling, idx, placed, pc,
                   tradeVars, stored, since_save, hedgeVars, engineVars, now, returned, manager_start_time, file_storage>>

(* ------------------------------ Init / Next --------------------------- *)
\* the state after GridEngine.__init__ for the given exchange and strategy
\* configurations, nothing persisted yet
InitState(exs, cfg, lim) ==
    /\ exchange_configs = exs
    /\ limits = lim
    /\ exchange_orders = [e \in DOMAIN exs |-> <<>>]
    /\ next_order_id = 1
    /\ config = cfg
    /\ start_price = [s \in DOMAIN cfg |-> cfg[s].low_price]
    /\ end_price = [s \in DOMAIN cfg |-> cfg[s].high_price]
    /\ levels = [s \in DOMAIN cfg |-> <<>>]
    /\ orders = [s \in DOMAIN cfg |-> <<>>]
    /\ completed_trades = [s \in DOMAIN cfg |-> 0]
    /\ pc = [s \in DOMAIN cfg |-> "new"]
    /\ current_price = [s \in DOMAIN cfg |-> 0]
    /\ batch = [s \in DOMAIN cfg |-> <<>>]
    /\ fetch_errors = [s \in DOMAIN cfg |-> {}]
    /\ handling = [s \in DOMAIN cfg |-> NoOrder]
    /\ idx = [s \in DOMAIN cfg |-> 1]
    /\ placed = [s \in DOMAIN cfg |-> NoPlacement]
    /\ trades_cache = [s \in DOMAIN cfg |-> <<>>]
    /\ cache_known = {}
    /\ trades_file = [s \in DOMAIN cfg |-> <<>>]
    /\ recorded = <<>>
    /\ stored = [s \in DOMAIN cfg |-> NoState]
    /\ since_save = [s \in DOMAIN cfg |-> SaveInterval]
    /\ hedge_strategies = <<>>
    /\ hedge_orders = <<>>
    /\ reverse_lookup = <<>>
    /\ uuid_count = 0
    /\ hedge_call = NoCall
    /\ hedge_polls = <<>>
    /\ close_call = NoClose
    /\ is_running = FALSE
    /\ shutdown_pc = [s \in DOMAIN cfg |-> "none"]
    /\ cancel_queue = [s \in DOMAIN cfg |-> [ids |-> <<>>, pos |-> 1]]
    /\ cancel_requested = {}
    /\ restarts = 0
    /\ tasks = [s \in DOMAIN cfg |-> 0]
    /\ now = 0
    /\ manager_start_time = 0
    /\ file_storage = NoFiles
    /\ returned = NoReturn
    /\ held = <<>>

\* ... after an initialize() in which every exchange was initialized and every
\* strategy constructed
InitWith(exs, cfg, lim) ==
    /\ InitState(exs, cfg, lim)
    /\ exchanges = exs
    /\ strategies = DOMAIN cfg
    /\ phase = "initialized"

StrategyConfig(n, hedge) ==
    [low_price |-> 100 * PriceUnit, high_price |-> 200 * PriceUnit,
     grid_number |-> n, enable_hedge |-> hedge, price_precision |-> 100,
     valid |-> TRUE]

\* the configuration of an unhedged grid of n levels between lo and hi
GridConfig(lo, hi, n) ==
    [StrategyConfig(n, FALSE) EXCEPT !.low_price = lo, !.high_price = hi]

PrimaryExchange == [name |-> "binance_future", is_hedge |-> FALSE]
HedgeExchange2 == [name |-> "binance", is_hedge |-> TRUE]
HedgeExchange1 == [name |-> "binance_future", is_hedge |-> TRUE]

\* the steps of one strategy's run_strategy task
StrategyStep(s) ==
    \/ Initialize(s)
    \/ BeginUpdate(s)
    \/ HandleOrder(s)
    \/ PlaceOpposite(s)
    \/ UpdateGridOrders(s)
    \/ FinishUpdate(s)

\* One process running one strategy: an unhedged grid of GridNumber levels, or
\* a hedged grid of HedgedGridNumber level(s) with two hedge venues, one of
\* them a second account on the primary venue's exchange.  Every cycle
\* takes the save interval or longer.
Init ==
    \/ InitWith((PRIMARY :> PrimaryExchange),
                ("s1" :> StrategyConfig(GridNumber, FALSE)),
                [orders |-> MaxOrders, hedge_orders |-> 0, restarts |-> 0,
                 delays |-> {SaveInterval}, ticker_fails |-> TRUE,
              init_prices |-> InitPrices])
    \/ InitWith((PRIMARY :> PrimaryExchange) @@ ("binance_future_h1" :> HedgeExchange1)
                   @@ ("binance_h2" :> HedgeExchange2),
                ("s1" :> StrategyConfig(HedgedGridNumber, TRUE)),
                [orders |-> MaxHedgedOrders, hedge_orders |-> MaxHedgeOrders,
                 restarts |-> 0, delays |-> {SaveInterval}, ticker_fails |-> FALSE,
              init_prices |-> InitPrices])

Next ==
    \/ Start
    \/ \E s \in strategies : StrategyStep(s)
    \/ VenueFill
    \/ VenueCancel

Spec == Init /\ [][Next]_vars

\* The life of a process with one strategy: cycles of any duration, shutdown,
\* restart from the persisted state.
InitLife ==
    InitWith((PRIMARY :> PrimaryExchange),
             ("s1" :> StrategyConfig(LifeGridNumber, FALSE)),
             [orders |-> MaxLifeOrders, hedge_orders |-> 0, restarts |-> MaxRestarts,
              delays |-> {UpdateInterval, SaveInterval}, ticker_fails |-> FALSE,
              init_prices |-> InitPrices \cup {OutsidePrice}])

NextLife ==
    \/ Start
    \/ \E s \in strategies : StrategyStep(s)
    \/ \E s \in strategies : LoopExit(s)
    \/ VenueFill
    \/ VenueCancel
    \/ Shutdown
    \/ \E s \in strategies : CancelAllOrders(s)
    \/ \E s \in strategies : CancelOrder(s)
    \/ CancelTasks
    \/ SaveFinalState
    \/ CloseExchanges
    \/ Restart

SpecLife == InitLife /\ [][NextLife]_vars

\* An engine with two unhedged strategies on the primary venue, from start to
\* the end of its shutdown.
InitEngine ==
    InitWith((PRIMARY :> PrimaryExchange),
             ("s1" :> StrategyConfig(EngineGridNumber, FALSE)) @@
             ("s2" :> StrategyConfig(EngineGridNumber, FALSE)),
             [orders |-> MaxEngineOrders, hedge_orders |-> 0, restarts |-> 0,
              delays |-> {SaveInterval}, ticker_fails |-> FALSE,
              init_prices |-> InitPrices])

NextEngine ==
    \/ Start
    \/ \E s \in strategies : StrategyStep(s)
    \/ \E s \in strategies : LoopExit(s)
    \/ VenueFill
    \/ VenueCancel
    \/ Shutdown
    \/ \E s \in strategies : CancelAllOrders(s)
    \/ \E s \in strategies : CancelOrder(s)
    \/ CancelTasks
    \/ SaveFinalState
    \/ CloseExchanges

SpecEngine == InitEngine /\ [][NextEngine]_vars

\* two strategies whose cycles can be left by an exception; no shutdown
InitFaults ==
    InitWith([e \in {PRIMARY} |-> PrimaryExchange],
             [s \in StrategyIds |-> StrategyConfig(EngineGridNumber, FALSE)],
             [orders |-> MaxFaultOrders, hedge_orders |-> 0, restarts |-> 0,
              delays |-> {SaveInterval}, ticker_fails |-> FALSE,
              init_prices |-> InitPrices])

NextFaults ==
    \/ Start
    \/ \E s \in strategies : StrategyStep(s)
    \/ \E s \in strategies : UpdateRaises(s)
    \/ \E s \in strategies : AfterError(s)
    \/ VenueFill
    \/ VenueCancel

SpecFaults == InitFaults /\ [][NextFaults]_vars

\* a hedged strategy whose hedge groups are canceled through the HedgeManager
\* a call create_hedge_order(strategy_id, side, amount, price, level_id,
\* original_order_id) with or without an original_order_id; the venues in
\* accepted take the order
CreateHedgeOrderFor(s, sides, original_ids) ==
    /\ \E side \in sides : \E original_order_id \in {NoOrder} \cup original_ids :
       \E accepted \in HedgeChoices(s, exchange_orders) :
          LET h == create_hedge_order(s, side, 1, original_order_id, exchange_orders,
                                       next_order_id, accepted)
          IN /\ exchange_orders' = h.exchange_orders
             /\ next_order_id' = h.next_order_id
             /\ hedge_orders' = h.hedge_orders
             /\ reverse_lookup' = h.reverse_lookup
             /\ uuid_count' = h.uuid_count
             /\ hedge_call' = h.hedge_call
    /\ UNCHANGED <<configVars, callerVars, strategyVars, pc, tradeVars, stored, since_save,
                   hedge_strategies, hedge_polls, close_call, engineVars>>

\* ... with any of the original order ids the callers pass
CreateHedgeOrder(s) == CreateHedgeOrderFor(s, Sides, 1..MaxOriginalIds)

\* ... for a primary buy order, without an original_order_id (the default None)
CreateHedgeOrderUnkeyed(s) == CreateHedgeOrderFor(s, {"buy"}, {})

InitHedge ==
    InitWith((PRIMARY :> PrimaryExchange) @@ ("binance_future_h1" :> HedgeExchange1)
                @@ ("binance_h2" :> HedgeExchange2),
             ("s1" :> StrategyConfig(HedgedGridNumber, TRUE)),
             [orders |-> MaxCancelPrimaryOrders, hedge_orders |-> MaxCancelHedgeOrders,
              restarts |-> 0, delays |-> {SaveInterval}, ticker_fails |-> FALSE,
              init_prices |-> InitPrices])

NextHedge ==
    \/ Start
    \/ \E s \in strategies : StrategyStep(s)
    \/ CancelHedgeOrders
    \/ VenueFill
    \/ VenueCancel

SpecHedge == InitHedge /\ [][NextHedge]_vars

\* The life of a process whose stored record can be damaged between a
\* shutdown and the restart.
InitRecover ==
    InitWith((PRIMARY :> PrimaryExchange),
             ("s1" :> StrategyConfig(LifeGridNumber, FALSE)),
             [orders |-> MaxRecoverOrders, hedge_orders |-> 0, restarts |-> MaxRestarts,
              delays |-> {SaveInterval}, ticker_fails |-> FALSE,
              init_prices |-> InitPrices \cup {OutsidePrice}])

NextRecover ==
    \/ NextLife
    \/ \E s \in strategies : DamageState(s)

SpecRecover == InitRecover /\ [][NextRecover]_vars

\* Startup: two configured exchanges which may fail to initialize, two
\* configured strategies whose construction may fail, then the cycles of
\* whatever was registered.
InitStartup ==
    \E ok \in SUBSET StrategyIds :
        /\ InitState((PRIMARY :> PrimaryExchange) @@ ("binance_h2" :> HedgeExchange2),
                     [s \in StrategyIds |->
                        [StrategyConfig(EngineGridNumber, FALSE) EXCEPT !.valid = s \in ok]],
                     [orders |-> MaxStartupOrders, hedge_orders |-> 0, restarts |-> 0,
                      delays |-> {SaveInterval}, ticker_fails |-> FALSE,
                      init_prices |-> InitPrices])
        /\ exchanges = <<>>
        /\ strategies = {}
        /\ phase = "constructed"

NextStartup ==
    \/ EngineInitialize
    \/ Start
    \/ \E s \in strategies : StrategyStep(s)
    \/ VenueFill
    \/ VenueCancel

SpecStartup == InitStartup /\ [][NextStartup]_vars

\* The OrderManager of one strategy under the calls of its interface.
InitOrders ==
    InitWith((PRIMARY :> PrimaryExchange),
             ("s1" :> StrategyConfig(LifeGridNumber, FALSE)),
             [orders |-> 0, hedge_orders |-> 0, restarts |-> 0,
              delays |-> {SaveInterval}, ticker_fails |-> FALSE,
              init_prices |-> InitPrices])

NextOrders ==
    \/ Tick
    \/ \E s \in strategies : AddOrder(s)
    \/ \E s \in strategies : CleanOldOrders(s)
    \/ \E s \in strategies : QueryOrders(s)
    \/ \E s \in strategies : GetOrder(s)
    \/ \E s \in strategies : MutateHeld(s)

SpecOrders == InitOrders /\ [][NextOrders]_vars

\* A first start of one strategy on each configured range and grid size.
InitGrid ==
    \E lo \in LowPrices : \E hi \in HighPrices : \E n \in 2..MaxGridLevels :
       InitWith((PRIMARY :> PrimaryExchange),
                ("s1" :> GridConfig(lo, hi, n)),
                [orders |-> MaxGridOrders, hedge_orders |-> 0, restarts |-> 0,
                 delays |-> {SaveInterval}, ticker_fails |-> FALSE,
                 init_prices |-> InitPrices])

NextGrid ==
    \/ Start
    \/ \E s \in strategies : StrategyStep(s)
    \/ VenueFill
    \/ VenueCancel

SpecGrid == InitGrid /\ [][NextGrid]_vars

\* a placement for level l of strategy s that the venue accepts
AcceptedPlacement(s, l) ==
    /\ UpdateGridOrders(s) \/ PlaceOpposite(s)
    /\ IF Len(placed'[s]) = 1
       THEN placed'[s][1].level = l /\ placed'[s][1].order_id # NoOrder
       ELSE FALSE

\* One strategy cycling on a grid of RetryGridNumber levels.
InitRetry ==
    InitWith((PRIMARY :> PrimaryExchange),
             ("s1" :> StrategyConfig(RetryGridNumber, FALSE)),
             [orders |-> MaxRetryOrders, hedge_orders |-> 0, restarts |-> 0,
              delays |-> {SaveInterval}, ticker_fails |-> FALSE,
              init_prices |-> InitPrices])

SpecCycle == InitRetry /\ [][NextGrid]_vars

\* ... with a polling task that keeps taking its steps and a venue that does
\* not refuse the placements for a level for ever.
SpecRetry ==
    /\ SpecCycle
    /\ \A s \in {"s1"} :
         /\ WF_vars(StrategyStep(s))
         /\ \A l \in 1..RetryGridNumber : SF_vars(AcceptedPlacement(s, l))

\* a call HedgeManager.update(strategy_id); the fetch_order calls for the
\* members in `failed` raise
HedgeUpdate(s) ==
    /\ \E failed \in SUBSET OpenMembers(s) :
          /\ hedge_orders' = hedge_update(s, failed)
          /\ hedge_polls' = hedge_update_polls(s, failed)
    /\ UNCHANGED <<configVars, callerVars, venueVars, strategyVars, pc, tradeVars, stored,
                   since_save, hedge_strategies, reverse_lookup, uuid_count, hedge_call,
                   close_call, engineVars>>

\* a step of a task that awaits save_json(filename, data); it waits while
\* another task holds the lock of the file
SaveJson ==
    /\ file_storage.save.pc = "idle" =>
          file_storage.lock = "" /\ Len(file_storage.content) < MaxFiles
    /\ \E data \in RecordData : \E fails \in BOOLEAN :
          file_storage' = save_json(file_storage, data, fails)
    /\ UNCHANGED <<configVars, venueVars, strategyVars, pc, tradeVars, stored, since_save,
                   hedgeVars, engineVars, now, manager_start_time, returned, held>>

\* a call save_json_sync(filename, data)
SaveJsonSync ==
    /\ Len(file_storage.content) < MaxFiles
    /\ \E data \in RecordData : \E fails \in BOOLEAN :
          file_storage' = save_json_sync(file_storage, data, fails)
    /\ UNCHANGED <<configVars, venueVars, strategyVars, pc, tradeVars, stored, since_save,
                   hedgeVars, engineVars, now, manager_start_time, returned, held>>

\* a step of a task that awaits load_json(filename)
LoadJson ==
    /\ (file_storage.load.pc = "idle" /\ file_storage.path # 0) => file_storage.lock = ""
    /\ file_storage' = load_json(file_storage)
    /\ UNCHANGED <<configVars, venueVars, strategyVars, pc, tradeVars, stored, since_save,
                   hedgeVars, engineVars, now, manager_start_time, returned, held>>

\* a call load_json_sync(filename)
LoadJsonSync ==
    /\ file_storage' = load_json_sync(file_storage)
    /\ UNCHANGED <<configVars, venueVars, strategyVars, pc, tradeVars, stored, since_save,
                   hedgeVars, engineVars, now, manager_start_time, returned, held>>

\* The FileStorage of a process whose tasks save and load one key with the
\* four methods the class offers.
InitStore ==
    InitWith([e \in {PRIMARY} |-> PrimaryExchange],
             ("s1" :> StrategyConfig(EngineGridNumber, FALSE)),
             [orders |-> 0, hedge_orders |-> 0, restarts |-> 0,
              delays |-> {SaveInterval}, ticker_fails |-> FALSE,
              init_prices |-> InitPrices])

NextStore ==
    \/ SaveJson
    \/ SaveJsonSync
    \/ LoadJson
    \/ LoadJsonSync

SpecStore == InitStore /\ [][NextStore]_vars

\* a call save_grid_state(strategy_id, state) with the strategy's state, as
\* GridStrategy.save_state makes it; the write goes through or fails
SaveGridState(s) ==
    /\ \E ok \in BOOLEAN :
         LET r == save_grid_state(stored, since_save, s, Snapshot(s), now, ok)
         IN /\ stored' = r.stored
            /\ since_save' = r.since_save
            /\ returned' = [op |-> "save_grid_state", arg |-> s, ok |-> r.result,
                            count |-> r.writes]
    /\ UNCHANGED <<configVars, venueVars, strategyVars, pc, tradeVars, hedgeVars,
                   engineVars, now, held, manager_start_time, file_storage>>

\* a second passes
Sleep ==
    /\ now < MaxSaveClock
    /\ now' = now + 1
    /\ since_save' = [s \in DOMAIN since_save |-> Min(SaveInterval, since_save[s] + 1)]
    /\ UNCHANGED <<configVars, venueVars, strategyVars, pc, tradeVars, stored,
                   hedgeVars, engineVars, returned, held, manager_start_time, file_storage>>

\* the process ends and a new one is set up: GridStateManager.__init__ notes
\* the time and starts with no _last_save_time; the records stay on disk
NewProcess ==
    /\ now < MaxSaveClock
    /\ restarts < MaxSaveRestarts
    /\ restarts' = restarts + 1
    /\ now' = now + 1
    /\ manager_start_time' = now + 1
    /\ since_save' = [s \in DOMAIN since_save |-> SaveInterval]
    /\ returned' = NoReturn
    /\ UNCHANGED <<configVars, venueVars, strategyVars, pc, tradeVars, stored, hedgeVars,
                   is_running, phase, shutdown_pc, cancel_queue, cancel_requested, tasks,
                   held, file_storage>>

\* The GridStateManager of a process with two strategies under calls of
\* save_grid_state, second by second; the process may be stopped and set up
\* again.
InitSave ==
    InitWith([e \in {PRIMARY} |-> PrimaryExchange],
             [s \in StrategyIds |-> StrategyConfig(EngineGridNumber, FALSE)],
             [orders |-> 0, hedge_orders |-> 0, restarts |-> 0,
              delays |-> {SaveInterval}, ticker_fails |-> FALSE,
              init_prices |-> InitPrices])

NextSave ==
    \/ Sleep
    \/ NewProcess
    \/ \E s \in strategies : SaveGridState(s)

SpecSave == InitSave /\ [][NextSave]_vars

\* a call HedgeManager.close_all_hedge_positions(strategy_id)
CloseAllHedgePositions(s) ==
    /\ \E reported \in {r \in [1..Len(get_hedge_exchanges) -> PositionLists] :
                            \A i \in DOMAIN r : r[i] \in ReportedBy(get_hedge_exchanges[i])} :
       \E taken \in SUBSET {x \in (1..Len(reported)) \X (1..MaxPositions) :
                               /\ x[2] <= Len(reported[x[1]])
                               /\ reported[x[1]][x[2]].size # Missing} :
          close_call' = close_all_hedge_positions(s, reported, taken)
    /\ UNCHANGED <<configVars, callerVars, venueVars, strategyVars, pc, tradeVars, stored,
                   since_save, hedge_strategies, hedge_orders, reverse_lookup, uuid_count,
                   hedge_call, hedge_polls, engineVars>>

\* The HedgeManager of a hedged strategy with a futures and a spot hedge venue
\* under calls of close_all_hedge_positions.
InitClose ==
    InitWith((PRIMARY :> PrimaryExchange) @@ ("binance_future_h1" :> HedgeExchange1)
                @@ ("binance_h2" :> HedgeExchange2),
             ("s1" :> StrategyConfig(HedgedGridNumber, TRUE)),
             [orders |-> 0, hedge_orders |-> 0,
              restarts |-> 0, delays |-> {SaveInterval}, ticker_fails |-> FALSE,
              init_prices |-> InitPrices])

NextClose ==
    \/ Start
    \/ \E s \in strategies : Initialize(s)
    \/ \E s \in strategies : CloseAllHedgePositions(s)

SpecClose == InitClose /\ [][NextClose]_vars

\* The HedgeManager shared by two hedged strategies under calls of
\* create_hedge_order, cancel_hedge_orders and update, while the venues fill
\* and cancel orders.
InitHedgeUpdate ==
    InitWith((PRIMARY :> PrimaryExchange) @@ ("binance_h2" :> HedgeExchange2),
             [s \in StrategyIds |-> StrategyConfig(HedgedGridNumber, TRUE)],
             [orders |-> 0, hedge_orders |-> MaxPolledHedgeOrders,
              restarts |-> 0, delays |-> {SaveInterval}, ticker_fails |-> FALSE,
              init_prices |-> InitPrices])

NextHedgeUpdate ==
    \/ Start
    \/ \E s \in strategies : Initialize(s)
    \/ \E s \in strategies : CreateHedgeOrderUnkeyed(s)
    \/ \E s \in strategies : HedgeUpdate(s)
    \/ VenueFill
    \/ VenueCancel

SpecHedgeUpdate == InitHedgeUpdate /\ [][NextHedgeUpdate]_vars

\* The HedgeManager of a hedged strategy under calls of create_hedge_order
\* and cancel_hedge_orders.
InitHedgeCalls ==
    InitWith((PRIMARY :> PrimaryExchange) @@ ("binance_future_h1" :> HedgeExchange1)
                @@ ("binance_h2" :> HedgeExchange2),
             ("s1" :> StrategyConfig(HedgedGridNumber, TRUE)),
             [orders |-> 0, hedge_orders |-> MaxCalledHedgeOrders,
              restarts |-> 0, delays |-> {SaveInterval}, ticker_fails |-> FALSE,
              init_prices |-> InitPrices])

NextHedgeCalls ==
    \/ Start
    \/ \E s \in strategies : Initialize(s)
    \/ \E s \in strategies : CreateHedgeOrder(s)
    \/ CancelHedgeOrders

SpecHedgeCalls == InitHedgeCalls /\ [][NextHedgeCalls]_vars

(* ------------------------------ properties ---------------------------- *)
\* the step of strategy s now taken is the update_grid_orders step of one level
GridStep(s) == pc[s] = "grid" /\ (idx'[s] # idx[s] \/ pc'[s] # "grid")

\* C1: with hedging enabled, every hedge order requested for a primary buy
\* placement has side sell, and every one requested for a primary sell
\* placement has side buy.
C1_HedgeOppositeOfPrimary ==
    \A s \in strategies : \A i \in 1..Len(placed[s]) :
        (config[s].enable_hedge /\ placed[s][i].order_id # NoOrder) =>
            \A side \in placed[s][i].hedge : side # placed[s][i].side

\* the other side
Opposite(side) == IF side = "buy" THEN "sell" ELSE "buy"

\* C2: a create_hedge_order call requests, on every hedge venue of the strategy,
\* an order whose side is the opposite of the side it was given, orders the
\* venues accept carry that side, and the group records it.
C2_CreateHedgeOrderInverts ==
    LET c == hedge_call
    IN (c.strategy \in DOMAIN hedge_strategies) =>
         /\ c.requested = {<<hedge_strategies[c.strategy][i], Opposite(c.side)>> :
                              i \in 1..Len(hedge_strategies[c.strategy])}
         /\ \A r \in c.requested : r[2] # c.side
         /\ c.ids # {} =>
               /\ c.key \in DOMAIN hedge_orders
               /\ hedge_orders[c.key].side = Opposite(c.side)
               /\ DOMAIN hedge_orders[c.key].orders = c.ids
               /\ \A h \in c.ids :
                     exchange_orders[hedge_orders[c.key].orders[h].exchange_id][h].side
                        = Opposite(c.side)

\* a call with side buy got an order accepted on each of two hedge venues
C2_Witness ==
    /\ hedge_call.side = "buy"
    /\ Cardinality(hedge_call.ids) = 2
    /\ Cardinality(hedge_call.requested) = 2
    /\ hedge_call.key \in DOMAIN hedge_orders
    /\ hedge_orders[hedge_call.key].side = "sell"

\* C3: a hedge group's status is filled exactly when every member order of the
\* group has status filled (a member shows filled once update has observed its
\* fill).
C3_GroupFilledIffMembers ==
    \A k \in DOMAIN hedge_orders :
        (hedge_orders[k].status = "filled") <=>
            (\A h \in DOMAIN hedge_orders[k].orders :
                hedge_orders[k].orders[h].status = "filled")

\* the status changes the level state machine allows
Transitions ==
    {<<"READY", "BUYING">>, <<"READY", "SELLING">>, <<"BUYING", "BOUGHT">>,
     <<"BUYING", "READY">>, <<"BOUGHT", "SELLING">>, <<"SELLING", "SOLD">>,
     <<"SELLING", "BOUGHT">>, <<"SOLD", "BUYING">>}

\* the order a step of check_order_status takes from the batch
Handled(s) ==
    (DOMAIN batch[s] \ DOMAIN batch'[s]) \cup ({handling'[s]} \ {NoOrder})

\* C4: every change of a level's status is one of the eight transitions, and a
\* fill or cancel handler changes the status of a level only from BUYING when
\* the handled order is the level's outstanding buy order, and only from
\* SELLING when it is the level's outstanding sell order.
C4_LevelTransitions ==
    [][\A s \in strategies : \A l \in 1..Len(levels[s]) :
          (levels'[s][l].status # levels[s][l].status) =>
             /\ <<levels[s][l].status, levels'[s][l].status>> \in Transitions
             /\ pc[s] = "handle" =>
                  \A h \in Handled(s) \cap DOMAIN orders[s] :
                     IF orders[s][h].side = "buy"
                     THEN /\ levels[s][l].status = "BUYING"
                          /\ levels[s][l].buy_order_id = h
                     ELSE /\ levels[s][l].status = "SELLING"
                          /\ levels[s][l].sell_order_id = h]_vars

\* a level is back in BOUGHT after the cancellation of its sell order
C4_Witness ==
    \E s \in strategies : \E l \in 1..Len(levels[s]) :
        /\ levels[s][l].status = "BOUGHT"
        /\ \E h \in DOMAIN orders[s] :
              /\ orders[s][h].level_id = l
              /\ orders[s][h].side = "sell"
              /\ orders[s][h].status = "canceled"

\* C5: no level has both its buy order reference and its sell order reference
\* set.
C5_OneReference ==
    \A s \in strategies : \A l \in 1..Len(levels[s]) :
        ~(levels[s][l].buy_order_id # NoOrder /\ levels[s][l].sell_order_id # NoOrder)

\* a level holds a sell order placed after the fill of its buy order
C5_Witness ==
    \E s \in strategies : \E l \in 1..Len(levels[s]) :
        /\ levels[s][l].status = "SELLING"
        /\ levels[s][l].sell_order_id # NoOrder
        /\ \E h \in DOMAIN orders[s] :
              /\ orders[s][h].level_id = l
              /\ orders[s][h].side = "buy"
              /\ orders[s][h].status = "filled"

\* C6: in the update_grid_orders step of a READY level with current price p:
\* p below the level price gives exactly one buy attempt, and BUYING when it
\* succeeds; p above gives exactly one sell attempt, and SELLING when it
\* succeeds; p equal to the level price gives no attempt and leaves READY.
C6_ReadyPlacement ==
    [][\A s \in strategies :
          (GridStep(s) /\ levels[s][idx[s]].status = "READY") =>
             LET l == idx[s]
                 p == current_price[s]
                 level == levels[s][l]
                 after == levels'[s][l]
                 got == placed'[s]
             IN /\ p < level.price =>
                     /\ Len(got) = 1 /\ got[1].side = "buy" /\ got[1].level = l
                     /\ after.status =
                          IF got[1].order_id # NoOrder THEN "BUYING" ELSE "READY"
                     /\ after.buy_order_id = got[1].order_id
                /\ p > level.price =>
                     /\ Len(got) = 1 /\ got[1].side = "sell" /\ got[1].level = l
                     /\ after.status =
                          IF got[1].order_id # NoOrder THEN "SELLING" ELSE "READY"
                     /\ after.sell_order_id = got[1].order_id
                /\ p = level.price => got = NoPlacement /\ after = level]_vars

\* the step went by a READY level priced at the fetched price, after a sell
\* order was placed for the level below it
C6_Witness ==
    \E s \in strategies :
        /\ pc[s] = "grid" /\ idx[s] = 3
        /\ levels[s][1].status = "SELLING"
        /\ levels[s][2].status = "READY"
        /\ levels[s][2].price = current_price[s]
        /\ placed[s] = NoPlacement

\* C7: the first cycle of a fresh grid with the price p inside the range, every
\* placement accepted: at the end of update_grid_orders every level priced below
\* p holds a buy order, every level priced above p a sell order, and a level
\* priced p no order.
C7_FreshGridSides ==
    \A s \in strategies :
        LET p == current_price[s]
            lv == levels[s]
        IN (/\ pc[s] = "finish"
            /\ ~stored[s].exists
            /\ start_price[s] <= p /\ p <= end_price[s]
            /\ \A l \in 1..Len(lv) :
                  lv[l].price # p => lv[l].status \in {"BUYING", "SELLING"})
           => \A l \in 1..Len(lv) :
                 /\ lv[l].price < p => lv[l].buy_order_id # NoOrder
                 /\ lv[l].price > p => lv[l].sell_order_id # NoOrder
                 /\ lv[l].price = p =>
                      lv[l].buy_order_id = NoOrder /\ lv[l].sell_order_id = NoOrder

\* C8: the fill of a primary order is acted on at most once: handle_order_filled
\* runs to its record_trade call (after its opposite placement, before its
\* counter increment) at most once for every order id.
C8_FillActedOnce ==
    \A id \in DOMAIN recorded : recorded[id] <= 1

\* every strategy's shutdown has finished, with a cancellation requested for
\* every order id its cancel_all_orders collected
StrategyShutdownsDone ==
    \A s \in strategies :
        /\ shutdown_pc[s] = "done"
        /\ Range(cancel_queue[s].ids) \subseteq cancel_requested

\* C9: the phases of the engine's shutdown happen in order.  cancel_all_orders
\* of every strategy collects every order id the strategy's levels reference
\* and requests a cancellation for each, whether or not other cancellations
\* go through; the engine cancels its tasks only after that, saves the final
\* states only after the tasks are stopped, and closes the venues only after
\* the save.
C9_ShutdownPhases ==
    /\ [](/\ (\E s \in strategies : pc[s] = "cancelled") => StrategyShutdownsDone
          /\ phase \in {"tasks_cancelled", "saved", "closed"} =>
                /\ StrategyShutdownsDone
                /\ \A s \in strategies : pc[s] \in {"cancelled", "done"})
    /\ [][/\ phase' # phase =>
               <<phase, phase'>> \in {<<"initialized", "running">>,
                                      <<"running", "stopping">>,
                                      <<"stopping", "tasks_cancelled">>,
                                      <<"tasks_cancelled", "saved">>,
                                      <<"saved", "closed">>}
          /\ \A s \in strategies :
               (shutdown_pc[s] = "pending" /\ shutdown_pc'[s] # "pending") =>
                   Range(cancel_queue'[s].ids) = ActiveOrderIds(levels[s])
          /\ stored' # stored =>
               \/ phase = "tasks_cancelled" /\ phase' = "saved"
               \/ \E s \in strategies : pc[s] = "finish" /\ pc'[s] = "ready"]_vars

\* the shutdown of an engine whose two strategies each held an order is
\* complete, and one of the cancellations did not go through
C9_Witness ==
    /\ phase = "closed"
    /\ \A s \in strategies : Len(cancel_queue[s].ids) > 0
    /\ \E id \in cancel_requested : exchange_orders[PRIMARY][id].status = "open"
    /\ \E id \in cancel_requested : exchange_orders[PRIMARY][id].status = "canceled"

\* C10: when the shutdown has saved the final state, the stored record of every
\* strategy equals the strategy's state in memory.
C10_FinalStateStored ==
    phase \in {"saved", "closed"} =>
        \A s \in strategies : stored[s] = Snapshot(s)

\* C11: once shutdown has cleared the running flag every polling loop ends by
\* finishing the cycle it is in: no task is ended while it is inside a cycle.
C11_NoCycleCutShort ==
    [][\A s \in strategies : InCycle(s) => pc'[s] # "cancelled"]_vars

\* C12: a strategy never has more than one polling task, so two executions of
\* its update() never overlap: a cycle in progress belongs to the strategy's
\* one task; the cycles of different strategies do interleave.
C12_OneTaskPerStrategy ==
    \A s \in strategies :
        /\ tasks[s] <= 1
        /\ InCycle(s) => tasks[s] = 1

C12_Witness ==
    /\ \A s \in StrategyIds : s \in strategies /\ tasks[s] = 1
    /\ pc["s1"] = "grid"
    /\ pc["s2"] = "handle"

\* C13: an exception raised inside update() does not leave the cycle's loop:
\* the task stays alive, the loop goes on to its sleep and from there starts
\* update() again while the engine runs; the other strategies' tasks and state
\* are not touched by it.
C13_ExceptionStaysInCycle ==
    /\ [](\A s \in strategies :
            /\ pc[s] = "caught" => tasks[s] = 1
            /\ pc[s] = "ready" /\ is_running => ENABLED BeginUpdate(s))
    /\ [][\A s \in strategies :
            /\ InCycle(s) => pc'[s] \in {"handle", "place", "grid", "finish", "ready", "caught"}
            /\ pc[s] = "caught" /\ pc'[s] # "caught" => pc'[s] = "ready"
            /\ pc[s] # "caught" /\ pc'[s] = "caught" =>
                 \A o \in strategies \ {s} :
                    /\ pc'[o] = pc[o]
                    /\ levels'[o] = levels[o]
                    /\ orders'[o] = orders[o]
                    /\ tasks'[o] = tasks[o]]_vars

C13_Witness ==
    /\ pc["s1"] = "caught"
    /\ InCycle("s2")
    /\ \E l \in 1..Len(levels["s1"]) : levels["s1"][l].status # "READY"

\* C14: the outcome of the hedge placement never changes what the primary
\* placement did: an order the primary venue accepted is referenced by its
\* level, which is BUYING for a buy and SELLING for a sell, and is tracked as
\* open, whether all, some or none of the hedge venues accepted.
C14_PrimaryKeptWhateverHedge ==
    \A s \in strategies : \A i \in DOMAIN placed[s] :
        LET p == placed[s][i]
        IN p.order_id # NoOrder =>
             /\ p.order_id \in DOMAIN orders[s]
             /\ orders[s][p.order_id].status = "open"
             /\ orders[s][p.order_id].side = p.side
             /\ IF p.side = "buy"
                THEN /\ levels[s][p.level].status = "BUYING"
                     /\ levels[s][p.level].buy_order_id = p.order_id
                ELSE /\ levels[s][p.level].status = "SELLING"
                     /\ levels[s][p.level].sell_order_id = p.order_id

C14_Witness ==
    \E s \in strategies :
        /\ config[s].enable_hedge
        /\ hedge_call.strategy = s
        /\ hedge_call.requested # {}
        /\ hedge_call.ids = {}
        /\ \E i \in DOMAIN placed[s] :
             /\ placed[s][i].side = "buy"
             /\ placed[s][i].order_id # NoOrder
             /\ levels[s][placed[s][i].level].status = "BUYING"

\* C15: create_hedge_order asks every hedge venue of the strategy, also after
\* one of them refused.  When at least one accepts, the group stored under the
\* call's key is open, its members are exactly the accepted orders, each on
\* the venue that accepted it, and the returned ids are exactly those; when
\* none accepts the returned list is empty and no group is created or changed.
C15_HedgeGroupOfAccepted ==
    /\ [](hedge_call.strategy \in DOMAIN hedge_strategies =>
            LET s == hedge_call.strategy
                key == hedge_call.key
            IN /\ hedge_call.requested =
                     {<<e, HedgeSide(hedge_call.side)>> : e \in Range(hedge_strategies[s])}
               /\ hedge_call.ids # {} =>
                     /\ key \in DOMAIN hedge_orders
                     /\ hedge_orders[key].status = "open"
                     /\ DOMAIN hedge_orders[key].orders = hedge_call.ids
                     /\ \A h \in hedge_call.ids :
                          LET e == hedge_orders[key].orders[h].exchange_id
                          IN /\ e \in Range(hedge_strategies[s])
                             /\ h \in DOMAIN exchange_orders[e]
               /\ hedge_call.ids = {} => key \notin DOMAIN hedge_orders)
    /\ [][hedge_call' # hedge_call /\ hedge_call'.ids = {} =>
            hedge_orders' = hedge_orders]_vars

C15_Witness ==
    /\ hedge_call.strategy \in DOMAIN hedge_strategies
    /\ Len(hedge_strategies[hedge_call.strategy]) = 2
    /\ hedge_call.ids # {}
    /\ \A h \in hedge_call.ids :
         hedge_orders[hedge_call.key].orders[h].exchange_id =
            hedge_strategies[hedge_call.strategy][2]

\* C16: once cancel_hedge_orders has returned for a stored group no member of
\* the group is open: each member that was open is marked canceled whatever
\* its venue answered, so a canceled group never holds an open member.
C16_CanceledGroupHasNoOpenMember ==
    \A key \in DOMAIN hedge_orders :
        hedge_orders[key].status = "canceled" =>
            \A h \in DOMAIN hedge_orders[key].orders :
                hedge_orders[key].orders[h].status # "open"

C16_Witness ==
    \E key \in DOMAIN hedge_orders :
        /\ hedge_orders[key].status = "canceled"
        /\ \E h \in DOMAIN hedge_orders[key].orders :
             /\ hedge_orders[key].orders[h].status = "canceled"
             /\ exchange_orders[hedge_orders[key].orders[h].exchange_id][h].status = "open"

\* the sequence b starts with the sequence a
IsPrefix(a, b) == Len(a) <= Len(b) /\ \A i \in 1..Len(a) : b[i] = a[i]

\* C17: the persisted trade history only grows by appending: every record in
\* a strategy's history file is still there, at its place, after any later
\* step, recordings made after a restart of the process included.
C17_HistoryAppendOnly ==
    [][\A s \in strategies : IsPrefix(trades_file[s], trades_file'[s])]_vars

\* C18: a strategy built from a saved state and then initialized holds exactly
\* what was saved: price bounds, levels, order map and completed-trade count
\* are those of the stored record, nothing is recomputed or shifted by
\* initialize().  (Stated for the stored record of a strategy that had its
\* levels when it was saved.)
C18_RestoredVerbatim ==
    [][\A s \in strategies :
          (pc[s] = "start" /\ pc'[s] = "ready" /\ stored[s].exists
             /\ Len(stored[s].levels) > 0) =>
             /\ start_price'[s] = stored[s].start_price
             /\ end_price'[s] = stored[s].end_price
             /\ levels'[s] = stored[s].levels
             /\ orders'[s] = stored[s].orders
             /\ completed_trades'[s] = stored[s].completed_trades]_vars

\* C19: a strategy constructed from a stored record that is corrupt or partial
\* and then initialized is a fresh one: its bounds come from the configuration
\* (re-centred on the price as for any fresh start), its levels are the fresh
\* READY levels of those bounds, it tracks no order and its completed-trade
\* count is zero; nothing of the record remains in it.
C19_DamagedStateGivesFresh ==
    [][\A s \in strategies :
          (pc[s] = "start" /\ pc'[s] = "ready" /\ stored[s].exists
             /\ stored[s].damage # "") =>
             /\ \E cp \in Prices \cup limits.init_prices :
                  LET r == Recentred(config[s].low_price, config[s].high_price, cp)
                  IN /\ start_price'[s] = r[1]
                     /\ end_price'[s] = r[2]
                     /\ levels'[s] = calculate_grid_levels(r[1], r[2], config[s].grid_number,
                                                           config[s].price_precision)
             /\ orders'[s] = <<>>
             /\ completed_trades'[s] = 0]_vars

\* C20: engine startup goes on with the exchanges that initialized and fails,
\* with no strategy constructed, exactly when none did; a strategy whose
\* construction fails is left out alone, every other configured strategy is
\* constructed and registered.
C20_StartupWithWhatInitialized ==
    [][(phase = "constructed" /\ phase' # "constructed") =>
          /\ DOMAIN exchanges' \subseteq DOMAIN exchange_configs
          /\ (phase' = "failed") <=> (DOMAIN exchanges' = {})
          /\ phase' = "failed" => strategies' = {}
          /\ phase' # "failed" =>
               /\ phase' = "initialized"
               /\ strategies' = {s \in DOMAIN config : config[s].valid}]_vars

C20_Witness ==
    /\ phase = "running"
    /\ DOMAIN exchanges = {"binance_h2"}
    /\ ~config["s1"].valid
    /\ strategies = {"s2"}
    /\ pc["s2"] = "grid"

\* the step now taken is a call of add_order
AddStep ==
    /\ returned'.op = "add_order"
    /\ held' = held /\ now' = now
    /\ returned' # returned \/ orders' # orders

\* C21: add_order on an id already tracked returns False and changes no
\* record; on an id not tracked it returns True and stores the record, leaving
\* the others as they were.
C21_AddNeverOverwrites ==
    [][AddStep =>
         \A s \in strategies :
            /\ returned'.ok <=> returned'.arg \notin DOMAIN orders[s]
            /\ ~returned'.ok => orders'[s] = orders[s]
            /\ returned'.ok =>
                 /\ DOMAIN orders'[s] = DOMAIN orders[s] \cup {returned'.arg}
                 /\ \A id \in DOMAIN orders[s] : orders'[s][id] = orders[s][id]]_vars

C21_Witness ==
    /\ returned.op = "add_order"
    /\ ~returned.ok
    /\ returned.arg \in DOMAIN orders["s1"]
    /\ orders["s1"][returned.arg].status = "open"

\* the step now taken is a call of clean_old_orders
CleanStep ==
    /\ returned'.op = "clean_old_orders"
    /\ now' = now
    /\ DOMAIN held' = DOMAIN held
    /\ \A id \in DOMAIN held : held'[id].data = held[id].data
    /\ returned' # returned \/ orders' # orders

\* C22: clean_old_orders(max_age) deletes exactly the orders that are older
\* than max_age and neither open nor partially filled, changes no order it
\* keeps, and returns the number of orders it deleted.
C22_CleanRemovesOldTerminalOnly ==
    [][CleanStep =>
         \A s \in strategies :
            LET removed == DOMAIN orders[s] \ DOMAIN orders'[s]
            IN /\ removed = {id \in DOMAIN orders[s] :
                                /\ now - orders[s][id].timestamp > returned'.arg
                                /\ orders[s][id].status # "open"
                                /\ orders[s][id].status # "partially_filled"}
               /\ DOMAIN orders'[s] \subseteq DOMAIN orders[s]
               /\ \A id \in DOMAIN orders'[s] : orders'[s][id] = orders[s][id]
               /\ returned'.count = Cardinality(removed)]_vars

\* an old terminal order was deleted while an equally old live one was kept
C22_Witness ==
    /\ returned.op = "clean_old_orders"
    /\ returned.count = 1
    /\ \E id \in DOMAIN orders["s1"] :
         /\ now - orders["s1"][id].timestamp > returned.arg
         /\ orders["s1"][id].status \in ActiveStatuses

\* C23: writing into a record of the result of a query by status, side,
\* level or time range changes nothing in the tracker.
C23_QueryResultIsACopy ==
    [][(/\ returned.op = "query"
        /\ \E id \in DOMAIN held \cap DOMAIN held' : held'[id].data # held[id].data)
       => orders' = orders]_vars

\* the caller has changed a record of a query result, the tracker's is as it was
C23_Witness ==
    /\ returned.op = "query"
    /\ \E id \in DOMAIN held \cap DOMAIN orders["s1"] :
         /\ held[id].data.status = "canceled"
         /\ orders["s1"][id].status = "open"

\* the prices of the levels of s
LevelPrice(s, i) == levels[s][i].price

HandledInStep(s) == DOMAIN batch[s] \ DOMAIN batch'[s]

\* the first half of the fill handler, for the order it is about to place the
\* opposite order of
FillMarked(s) ==
    LET id == handling'[s]
        l == orders[s][id].level_id
    IN /\ batch[s][id] = "closed"
       /\ orders'[s][id].status = "filled"
       /\ \A k \in 1..Len(levels[s]) : k # l => levels'[s][k] = levels[s][k]
       /\ orders[s][id].side = "buy" =>
             levels'[s][l].status = "BOUGHT" /\ levels'[s][l].buy_order_id = NoOrder
       /\ orders[s][id].side = "sell" =>
             levels'[s][l].status = "SOLD" /\ levels'[s][l].sell_order_id = NoOrder

\* the second half: one placement attempt of the opposite side for the level,
\* one record_trade, the counter
FillCompleted(s) ==
    LET id == handling[s]
        l == orders[s][id].level_id
        side == orders[s][id].side
    IN /\ Len(placed'[s]) = 1
       /\ placed'[s][1].level = l
       /\ placed'[s][1].side = Opposite(side)
       /\ orders'[s][id].status = "filled"
       /\ placed'[s][1].order_id = NoOrder => levels'[s][l] = levels[s][l]
       /\ placed'[s][1].order_id # NoOrder =>
             IF side = "buy"
             THEN /\ levels'[s][l].status = "SELLING"
                  /\ levels'[s][l].sell_order_id = placed'[s][1].order_id
             ELSE /\ levels'[s][l].status = "BUYING"
                  /\ levels'[s][l].buy_order_id = placed'[s][1].order_id
       /\ trades_file'[s] = Append(trades_file[s], [order_id |-> id, side |-> side])
       /\ completed_trades'[s] = completed_trades[s] + 1

\* C25: the handler of an observed fill of a tracked order marks the order
\* filled, sets the level to BOUGHT (SOLD for a sell) with the filled order's
\* reference cleared, then attempts the opposite placement for that level and,
\* whether or not the placement went through, appends one trade record and
\* adds one to completed_trades.
C25_FillHandler ==
    [][\A s \in strategies :
         /\ (pc[s] = "handle" /\ pc'[s] = "place") => FillMarked(s)
         /\ (pc[s] = "handle" /\ pc'[s] # "place") =>
               \A id \in HandledInStep(s) : batch[s][id] = "closed" => id \notin DOMAIN orders[s]
         /\ (pc[s] = "place" /\ pc'[s] # "place") => FillCompleted(s)]_vars

\* a fill handler has just ended whose sell placement failed: the trade is
\* recorded and the level is BOUGHT without an order
C25_Witness ==
    /\ pc["s1"] = "grid" /\ idx["s1"] = 1
    /\ Len(placed["s1"]) = 1
    /\ placed["s1"][1].side = "sell"
    /\ placed["s1"][1].order_id = NoOrder
    /\ completed_trades["s1"] = 1
    /\ Len(trades_file["s1"]) = 1
    /\ levels["s1"][placed["s1"][1].level].status = "BOUGHT"

\* what the cancel handler makes of the level l for the canceled order id
CancelReverted(s, id, l) ==
    IF orders[s][id].side = "buy"
    THEN [levels[s][l] EXCEPT !.buy_order_id = NoOrder,
                              !.status = IF @ = "BUYING" THEN "READY" ELSE @]
    ELSE [levels[s][l] EXCEPT !.sell_order_id = NoOrder,
                              !.status = IF @ = "SELLING" THEN "BOUGHT" ELSE @]

\* C26: the handler of an observed cancellation of a tracked order marks the
\* order canceled, clears its reference on the level and takes the level from
\* BUYING to READY (buy) or from SELLING to BOUGHT (sell); the level's other
\* reference, the other levels, the trade history and completed_trades stay
\* as they were, and no order is placed.
C26_CancelHandler ==
    [][\A s \in strategies :
         pc[s] = "handle" =>
            \A id \in HandledInStep(s) \cap DOMAIN orders[s] :
               batch[s][id] # "closed" =>
                  LET l == orders[s][id].level_id
                  IN /\ orders'[s][id].status = "canceled"
                     /\ levels[s][l].status = (IF orders[s][id].side = "buy"
                                               THEN "BUYING" ELSE "SELLING")
                     /\ levels'[s] = [levels[s] EXCEPT ![l] = CancelReverted(s, id, l)]
                     /\ UNCHANGED <<tradeVars, completed_trades, venueVars>>
                     /\ pc'[s] # "place"]_vars

\* a canceled sell order has been handled: its level is BOUGHT without an order
C26_Witness ==
    \E id \in DOMAIN orders["s1"] :
       /\ orders["s1"][id].status = "canceled"
       /\ orders["s1"][id].side = "sell"
       /\ levels["s1"][orders["s1"][id].level_id].status = "BOUGHT"
       /\ levels["s1"][orders["s1"][id].level_id].sell_order_id = NoOrder
       /\ completed_trades["s1"] = 0

\* the orders of the batch are handled one after the other whatever their
\* handlers meet, then the loop of update_grid_orders runs over every level,
\* then the cycle saves and ends
CycleGoesOn(s) ==
    /\ pc[s] = "handle" => pc'[s] \in {"handle", "place", "grid"}
    /\ pc[s] = "place" =>
          \/ pc'[s] = "place"
          \/ /\ DOMAIN batch'[s] = DOMAIN batch[s] \ {handling[s]}
             /\ pc'[s] = IF DOMAIN batch'[s] = {} THEN "grid" ELSE "handle"
    /\ (pc[s] # "grid" /\ pc'[s] = "grid") => (batch'[s] = <<>> /\ idx'[s] = 1)
    /\ pc[s] = "grid" =>
          \/ pc'[s] = "grid" /\ idx'[s] \in {idx[s], idx[s] + 1}
          \/ pc'[s] = "finish" /\ idx[s] = Len(levels[s])
    /\ pc[s] = "finish" =>
          \/ pc'[s] = "finish"
          \/ /\ pc'[s] = "ready"
             /\ stored'[s].levels = levels[s]
             /\ stored'[s].orders = orders[s]

C28_FailedPlacementStaysLocal ==
    [][\A s \in strategies :
         (pc[s] = "grid" /\ (idx'[s] # idx[s] \/ pc'[s] # pc[s])) =>
            /\ \A k \in 1..Len(levels[s]) : k # idx[s] => levels'[s][k] = levels[s][k]
            /\ (Len(placed'[s]) = 1 /\ placed'[s][1].order_id = NoOrder) =>
                  (levels'[s] = levels[s] /\ orders'[s] = orders[s])
            /\ IF idx[s] < Len(levels[s])
               THEN pc'[s] = "grid" /\ idx'[s] = idx[s] + 1
               ELSE pc'[s] = "finish"]_vars

\* in one pass of the loop the placement for the first level failed (the
\* level is still READY, off the price, without an order) and the placement
\* for the last level went through
C28_Witness ==
    /\ pc["s1"] = "finish"
    /\ Len(levels["s1"]) > 1
    /\ Len(placed["s1"]) = 1
    /\ placed["s1"][1].order_id # NoOrder
    /\ placed["s1"][1].level = Len(levels["s1"])
    /\ levels["s1"][1].status = "READY"
    /\ levels["s1"][1].price # current_price["s1"]
    /\ levels["s1"][1].buy_order_id = NoOrder
    /\ levels["s1"][1].sell_order_id = NoOrder

\* the venue accepts no further order in this run
VenueExhausted == PrimaryPlaced(exchange_orders) >= limits.orders

\* level l of s1 has the status st, and no order when it is BOUGHT or SOLD
LevelAt(l, st) ==
    IF l > Len(levels["s1"]) THEN FALSE
    ELSE /\ levels["s1"][l].status = st
         /\ st = "BOUGHT" => levels["s1"][l].sell_order_id = NoOrder
         /\ st = "SOLD" => levels["s1"][l].buy_order_id = NoOrder

\* C29: while the strategy keeps cycling and the venue does not refuse for
\* ever, a level that is BOUGHT without a sell order becomes SELLING and a
\* level that is SOLD without a buy order becomes BUYING (as long as the venue
\* takes orders at all in the run).
C29_PlacementRetried ==
    \A l \in 1..RetryGridNumber :
       /\ LevelAt(l, "BOUGHT") ~> (LevelAt(l, "SELLING") \/ VenueExhausted)
       /\ LevelAt(l, "SOLD") ~> (LevelAt(l, "BUYING") \/ VenueExhausted)

\* the loop of update_grid_orders of a later cycle has placed the sell order
\* of the last level, whose buy order was filled and whose sell placement had
\* failed
C29_Witness ==
    /\ pc["s1"] = "finish"
    /\ Len(placed["s1"]) = 1
    /\ placed["s1"][1].level = Len(levels["s1"])
    /\ placed["s1"][1].side = "sell"
    /\ placed["s1"][1].order_id # NoOrder
    /\ levels["s1"][Len(levels["s1"])].status = "SELLING"
    /\ \E id \in DOMAIN orders["s1"] :
         /\ orders["s1"][id].level_id = Len(levels["s1"])
         /\ orders["s1"][id].side = "buy"
         /\ orders["s1"][id].status = "filled"

\* C30: reverse_lookup and the stored groups agree: every hedge order id of
\* the index maps to the key of a stored group that has it as a member, and
\* every member of a stored group is in the index under that group's key.
C30_IndexAgreesWithGroups ==
    /\ \A h \in DOMAIN reverse_lookup :
         /\ reverse_lookup[h] \in DOMAIN hedge_orders
         /\ h \in DOMAIN hedge_orders[reverse_lookup[h]].orders
    /\ \A k \in DOMAIN hedge_orders :
         \A h \in DOMAIN hedge_orders[k].orders :
            h \in DOMAIN reverse_lookup /\ reverse_lookup[h] = k

\* the status update(strategy_id) gives a member it asked about
PolledStatus(old, result) ==
    IF result = "closed" THEN "filled"
    ELSE IF result = "canceled" THEN "canceled" ELSE old

\* the step now taken is an update of strategy s: it asked about exactly the
\* open members of the open groups of s, every answer is the venue's status
\* of that order or a failure, and every member has the status that its own
\* answer gives it, whatever the other answers were
UpdateOf(s) ==
    /\ DOMAIN hedge_polls' = OpenMembers(s)
    /\ \A h \in DOMAIN hedge_polls' :
          LET p == hedge_polls'[h]
          IN \/ p.result = "error"
             \/ /\ h \in DOMAIN exchange_orders[p.exchange]
                /\ p.result = exchange_orders[p.exchange][h].status
    /\ DOMAIN hedge_orders' = DOMAIN hedge_orders
    /\ \A k \in DOMAIN hedge_orders :
          LET g == hedge_orders[k]
          IN /\ DOMAIN hedge_orders'[k].orders = DOMAIN g.orders
             /\ hedge_orders'[k] = [g EXCEPT !.orders = hedge_orders'[k].orders]
             /\ \A h \in DOMAIN g.orders :
                   LET m == g.orders[h]
                   IN hedge_orders'[k].orders[h] =
                         [m EXCEPT !.status =
                            IF g.strategy_id = s /\ g.status = "open"
                               /\ m.status = "open" /\ h \in DOMAIN hedge_polls'
                            THEN PolledStatus(m.status, hedge_polls'[h].result)
                            ELSE m.status]

\* C31: HedgeManager.update(strategy_id) polls exactly the open members of the
\* open groups of that strategy; a member changes only from open to filled
\* (venue: closed) or from open to canceled (venue: canceled); a member whose
\* poll failed, a member already filled or canceled and every group of another
\* strategy stay as they were, and a failed poll does not keep the members
\* after it from being polled.
C31_UpdatePollsOpenMembers ==
    [][hedge_polls' # hedge_polls => \E s \in strategies : UpdateOf(s)]_vars

\* an update of s1 in which the poll of one member failed and a later member
\* was found filled, while an open group of s2 whose order is closed on its
\* venue kept its open member
C31_Witness ==
    /\ \E h1, h2 \in DOMAIN hedge_polls :
          /\ h1 < h2
          /\ hedge_polls[h1].result = "error"
          /\ hedge_polls[h2].result = "closed"
          /\ \E k \in DOMAIN hedge_orders :
                /\ hedge_orders[k].strategy_id = "s1"
                /\ h2 \in DOMAIN hedge_orders[k].orders
                /\ hedge_orders[k].orders[h2].status = "filled"
    /\ \E k \in DOMAIN hedge_orders :
          /\ hedge_orders[k].strategy_id = "s2"
          /\ hedge_orders[k].status = "open"
          /\ \E h \in DOMAIN hedge_orders[k].orders :
                /\ hedge_orders[k].orders[h].status = "open"
                /\ exchange_orders["binance_h2"][h].status = "closed"

\* the market orders of the last close_all_hedge_positions call that reached
\* venue i for its position j
SentOrders(i, j) ==
    LET x == close_call.exchanges[i]
    IN IF j > Len(x.orders) THEN <<>> ELSE SelectSeq(x.orders[j], LAMBDA o : o.sent)

\* C32: for each non-zero position on a hedge venue, close_all_hedge_positions
\* issues one reduce-only market order of the position's magnitude in the
\* closing direction (sell for long, buy for short), and, only if that order
\* is rejected, exactly one further market order without the reduce-only flag.
C32_ReduceOnlyThenPlain ==
    \A i \in DOMAIN close_call.exchanges :
       LET x == close_call.exchanges[i]
       IN \A j \in DOMAIN x.reported :
             x.reported[j].size # Missing =>
                LET sent == SentOrders(i, j)
                    close_side == IF x.reported[j].side = "long" THEN "sell" ELSE "buy"
                IN /\ Len(sent) \in {1, 2}
                   /\ sent[1].reduce_only
                   /\ \A n \in DOMAIN sent :
                         /\ sent[n].side = close_side
                         /\ sent[n].amount = Abs(x.reported[j].size)
                   /\ Len(sent) = 2 => ~sent[1].ok /\ ~sent[2].reduce_only
                   /\ Len(sent) = 1 => sent[1].ok

\* the step now taken is a call save_grid_state for strategy s that is not a
\* repetition without effect
SaveCall(s) ==
    /\ returned'.op = "save_grid_state"
    /\ returned'.arg = s
    /\ returned' # returned \/ stored'[s] # stored[s]

\* seconds since the stored record of s was written, by its own time stamp
RecordAge(s) == now - stored[s].last_saved

\* the conditions under which a call save_grid_state for s writes nothing or
\* fails, and what it leaves alone
SaveSkipsAndFailures(s) ==
    /\ (SaveCall(s) /\ stored[s].exists /\ stored[s].last_saved >= manager_start_time
           /\ RecordAge(s) < SaveInterval) =>
          /\ returned'.count = 0
          /\ stored' = stored
    /\ (SaveCall(s) /\ ~returned'.ok) =>
          /\ stored' = stored
          /\ since_save' = since_save
    /\ (SaveCall(s) /\ returned.op = "save_grid_state" /\ returned.arg = s
           /\ ~returned.ok) =>
          returned'.count = 1

\* C33 as stated: any two successful writes of one strategy's record are at
\* least the minimum save interval apart; a save asked for sooner writes
\* nothing and leaves the record as it is; a write that fails leaves the
\* record and the time of the last save as they are, so that the next save is
\* attempted.
C33_AnyTwoWritesApart ==
    [][\A s \in strategies :
         /\ stored'[s] # stored[s] =>
               /\ SaveCall(s)
               /\ stored[s].exists => RecordAge(s) >= SaveInterval
               /\ stored'[s] = [Snapshot(s) EXCEPT !.last_saved = now]
         /\ SaveSkipsAndFailures(s)]_vars

\* C33, amended: two successful writes of one strategy's record by the same
\* process are at least the minimum save interval apart (the first save of a
\* process writes whatever the age of the record); a save asked for sooner
\* after a write of the same process writes nothing and leaves the record as
\* it is; a write that fails leaves the record and the time of the last save
\* as they are, so that the next save is attempted.
C33_WritesRateLimited ==
    [][\A s \in strategies :
         /\ stored'[s] # stored[s] =>
               /\ SaveCall(s)
               /\ (stored[s].exists /\ stored[s].last_saved >= manager_start_time) =>
                     RecordAge(s) >= SaveInterval
               /\ stored'[s] = [Snapshot(s) EXCEPT !.last_saved = now]
         /\ SaveSkipsAndFailures(s)]_vars

\* a write that failed the minimum save interval or longer after the running
\* process wrote the record
C33_Witness ==
    \E s \in strategies :
       /\ returned.op = "save_grid_state"
       /\ returned.arg = s
       /\ ~returned.ok
       /\ stored[s].exists
       /\ stored[s].last_saved >= manager_start_time
       /\ RecordAge(s) >= SaveInterval

\* C34: at every instant the stored record of a key is a complete record, the
\* one written before or the newly written one: a write that fails leaves the
\* record as it was, and no load observes a half-written record, also when
\* saves and loads of the key interleave.
C34_RecordAlwaysComplete ==
    /\ file_storage.path # 0 => file_storage.content[file_storage.path] \in RecordData
    /\ file_storage.loaded # <<>> => file_storage.loaded \in RecordData
    /\ file_storage.saved = "failed" => ~file_storage.changed

\* the hedge groups created for strategy s
HedgeGroupsOf(ho, s) == {k \in DOMAIN ho : ho[k].strategy_id = s}

\* C35: once the shutdown of a strategy has begun to cancel (its
\* cancel_all_orders has collected the referenced order ids), the strategy
\* places no further primary or hedge order, and when the shutdown of the
\* strategies is over every order a level references has had its
\* cancellation requested.
C35_NoPlacementOnceCancelling ==
    /\ [][\A s \in strategies :
             shutdown_pc[s] \in {"cancelling", "done"} =>
                 /\ DOMAIN orders'[s] \subseteq DOMAIN orders[s]
                 /\ HedgeGroupsOf(hedge_orders', s) \subseteq HedgeGroupsOf(hedge_orders, s)]_vars
    /\ [](phase \in {"tasks_cancelled", "saved", "closed"} =>
             \A s \in strategies : ActiveOrderIds(levels[s]) \subseteq cancel_requested)

\* the members of all hedge groups: hedge order id -> member
HedgeMembers ==
    UNION {{<<h, hedge_orders[k].orders[h]>> : h \in DOMAIN hedge_orders[k].orders} :
           k \in DOMAIN hedge_orders}

\* C36: every status poll and every cancellation of a hedge order goes to the
\* venue connection that accepted the order, also when several connections
\* have the same venue name: the connection update and cancel_hedge_orders
\* look up for a member is the one recorded as its exchange_id, and every
\* fetch_order of the last update went to it.
C36_HedgeOrderAskedWhereAccepted ==
    \A hm \in HedgeMembers :
        /\ get_exchange_by_name(hm[2].exchange_name) = hm[2].exchange_id
        /\ hm[1] \in DOMAIN hedge_polls => hedge_polls[hm[1]].exchange = hm[2].exchange_id

\* C37: a level has status BUYING exactly when its buy order reference is set
\* and status SELLING exactly when its sell order reference is set.
C37_StatusMatchesReference ==
    \A s \in strategies : \A l \in 1..Len(levels[s]) :
        /\ levels[s][l].status = "BUYING" <=> levels[s][l].buy_order_id # NoOrder
        /\ levels[s][l].status = "SELLING" <=> levels[s][l].sell_order_id # NoOrder

\* one level is SELLING with its sell order referenced while another, whose
\* buy order was canceled, is READY without a reference
C37_Witness ==
    \E l, k \in 1..Len(levels["s1"]) :
        /\ levels["s1"][l].status = "SELLING"
        /\ levels["s1"][l].sell_order_id # NoOrder
        /\ levels["s1"][k].status = "READY"
        /\ levels["s1"][k].buy_order_id = NoOrder
        /\ \E id \in DOMAIN orders["s1"] :
              /\ orders["s1"][id].level_id = k
              /\ orders["s1"][id].side = "buy"
              /\ orders["s1"][id].status = "canceled"

\* the order id is tracked as an open order of level l and the given side
TrackedOpen(s, id, l, side) ==
    /\ id \in DOMAIN orders[s]
    /\ orders[s][id].status = "open"
    /\ orders[s][id].level_id = l
    /\ orders[s][id].side = side

\* C38: every order reference of a level is the id of a tracked order with
\* status open, the level's id as level_id and the side of the reference, and
\* every tracked order with status open is referenced by its level.
C38_ReferencesAreTrackedOpenOrders ==
    \A s \in strategies :
        /\ \A l \in 1..Len(levels[s]) :
              /\ levels[s][l].buy_order_id # NoOrder =>
                    TrackedOpen(s, levels[s][l].buy_order_id, l, "buy")
              /\ levels[s][l].sell_order_id # NoOrder =>
                    TrackedOpen(s, levels[s][l].sell_order_id, l, "sell")
        /\ \A id \in DOMAIN orders[s] :
              orders[s][id].status = "open" =>
                 /\ orders[s][id].level_id \in 1..Len(levels[s])
                 /\ id = (IF orders[s][id].side = "buy"
                          THEN levels[s][orders[s][id].level_id].buy_order_id
                          ELSE levels[s][orders[s][id].level_id].sell_order_id)

\* a level references its open sell order, tracked next to the filled buy
\* order of the same level and to a canceled order that nothing references
C38_Witness ==
    \E l \in 1..Len(levels["s1"]) :
        /\ levels["s1"][l].sell_order_id # NoOrder
        /\ TrackedOpen("s1", levels["s1"][l].sell_order_id, l, "sell")
        /\ \E id, id2 \in DOMAIN orders["s1"] :
              /\ orders["s1"][id].level_id = l
              /\ orders["s1"][id].side = "buy"
              /\ orders["s1"][id].status = "filled"
              /\ orders["s1"][id2].status = "canceled"
              /\ id2 \notin ActiveOrderIds(levels["s1"])

\* the primary order a hedge group was created for: the placement takes the
\* primary order's id from the venue just before the ids of its hedge orders
PrimaryOf(k) ==
    LET ids == DOMAIN hedge_orders[k].orders
    IN (CHOOSE h \in ids : \A x \in ids : h <= x) - 1

\* C39: once a primary order has been observed canceled, the hedge orders
\* created for it are not open any more, neither in the hedge manager's
\* records nor on their venues.
C39_NoOpenHedgeOfCanceledPrimary ==
    \A s \in strategies : \A k \in HedgeGroupsOf(hedge_orders, s) :
        (/\ PrimaryOf(k) \in DOMAIN orders[s]
         /\ orders[s][PrimaryOf(k)].status = "canceled") =>
            \A h \in DOMAIN hedge_orders[k].orders :
                LET m == hedge_orders[k].orders[h]
                IN /\ m.status # "open"
                   /\ exchange_orders[m.exchange_id][h].status # "open"

\* C40: initialize() changes a strategy's price range only when a price that
\* the ticker delivered lies outside the range, and then re-centres the range
\* on that price; when the fetch of the price fails the initialization fails
\* or the range stays as configured.
C40_RangeChangedOnlyByFetchedPrice ==
    [][\A s \in strategies :
         (pc[s] = "start" /\ <<start_price'[s], end_price'[s]>> # <<start_price[s], end_price[s]>>) =>
            \E cp \in Prices \cup limits.init_prices :
               /\ ~(start_price[s] <= cp /\ cp <= end_price[s])
               /\ <<start_price'[s], end_price'[s]>> =
                     Recentred(start_price[s], end_price[s], cp)]_vars
====
